---- MODULE Spec2Model ----
(***************************************************************************)
(* Model of the payment orchestration core of payments-dashboard:          *)
(*   - LedgerService   (modules/ledger/ledger.service.ts)                  *)
(*   - PaymentService  (modules/payment/payment.service.ts)                *)
(*   - RoutingService and ProviderScoreEvaluator (modules/routing)         *)
(*   - ReconciliationService (modules/reconciliation)                      *)
(* Each subsystem has its own specification over the shared variables;     *)
(* the variables of the other subsystems keep their initial values.        *)
(***************************************************************************)
EXTENDS Integers, Sequences, FiniteSets, Bags, TLC

\* ---------------------------------------------------------------- bounds
MaxAmount == 2
MaxBatch == 2
MaxRows == 4
MaxRouteAmount == 2
MaxTxns == 2
PaymentAmount == 2

None == "none"

\* ------------------------------------------------------------- variables
VARIABLES
  ledger,     \* the ledgerEntry table: a bag of rows
  inflight,   \* the entry set handed to prisma.$transaction and not yet committed
  last,       \* outcome of the ledger call that finished last, until taken
  rules,      \* the merchant's routingRule rows, by ascending priority
  providers,  \* the merchant's active provider configs, by ascending priority
  provMetrics,\* per provider: what providerService.getMetrics returns
  rcontext,   \* RoutingContext of the last selectProvider call
  decision,   \* what the last selectProvider call returned or threw
  txns,       \* the transaction table; a row's id is its index
  history,    \* per transaction, its transactionStatusHistory rows in order
  calls,      \* per client, the PaymentService call it is in or made last
  attempters, \* per idempotency key, the createPayment calls that reached
              \* adapter.authorize
  rulesCache, \* the cache entry routing:rules:<merchant>
  ruleCalls,  \* per client, the RoutingService call it is in or made last
  reports,    \* the reconciliationReport table; a row's id is its index
  reconCalls, \* per client, the ReconciliationService call it is in or made last
  webhookEvents,    \* the number of rows of the webhookEvent table
  adapterInstances, \* AdapterFactory's cache: per provider code, the state
                    \* of the cached adapter
  metricsCache      \* per provider, the cache entry provider:metrics:<id>

ledgerVars == <<ledger, inflight, last>>
routeVars == <<rules, providers, provMetrics, rcontext, decision>>
payVars == <<txns, history, calls, attempters>>
cacheVars == <<rulesCache, ruleCalls>>
reconVars == <<reports, reconCalls>>
providerVars == <<webhookEvents, adapterInstances, metricsCache>>
vars == <<ledger, inflight, last, rules, providers, provMetrics, rcontext, decision,
          txns, history, calls, attempters, rulesCache, ruleCalls, reports, reconCalls,
          webhookEvents, adapterInstances, metricsCache>>

\* ---------------------------------------------------------------- ledger
\* Rows of the transaction table the ledger can refer to; "t3" is an id
\* that no transaction has.
KnownTransactions == {"t1", "t2"}
TransactionIds == KnownTransactions \cup {"t3"}
Currencies == {"USD", "EUR"}
EntryTypes == {"DEBIT", "CREDIT"}
Amounts == 1..MaxAmount

CASH == "1000"
FX_RECEIVABLE == "1300"
MERCHANT_PAYABLE == "2100"
REFUND_PAYABLE == "2200"
FX_REVENUE == "3100"

\* CreateLedgerEntryRequest: the entry names its own transaction id.
EntryRequests ==
  [transactionId : KnownTransactions, accountCode : {CASH},
   entryType : EntryTypes, amount : Amounts, currency : Currencies]

EntrySets == UNION {[1..n -> EntryRequests] : n \in 0..MaxBatch}

RECURSIVE SumAmounts(_)
SumAmounts(es) ==
  IF es = <<>> THEN 0 ELSE Head(es).amount + SumAmounts(Tail(es))

RECURSIVE SeqToBag(_)
SeqToBag(es) ==
  IF es = <<>> THEN EmptyBag ELSE SetToBag({Head(es)}) (+) SeqToBag(Tail(es))

\* Sum of the amounts of the rows of table B that are in the set S.
RECURSIVE BagAmount(_, _)
BagAmount(B, S) ==
  IF S = {} THEN 0
  ELSE LET r == CHOOSE x \in S : TRUE
       IN B[r] * r.amount + BagAmount(B, S \ {r})

\* validateBalance: one pass over the entries accumulating, per currency,
\* the debit and credit totals; then every currency's totals must agree.
\* TRUE = no error thrown.
RECURSIVE currencyTotals(_, _)
currencyTotals(es, totals) ==
  IF es = <<>> THEN totals
  ELSE LET entry == Head(es)
           t0 == IF entry.currency \in DOMAIN totals
                   THEN totals
                   ELSE [c \in DOMAIN totals \cup {entry.currency} |->
                           IF c \in DOMAIN totals THEN totals[c]
                           ELSE [debits |-> 0, credits |-> 0]]
           t1 == IF entry.entryType = "DEBIT"
                   THEN [t0 EXCEPT ![entry.currency].debits = @ + entry.amount]
                   ELSE [t0 EXCEPT ![entry.currency].credits = @ + entry.amount]
       IN currencyTotals(Tail(es), t1)

validateBalanceAcrossCurrencies(entries) ==
  SumAmounts(SelectSeq(entries, LAMBDA e : e.entryType = "DEBIT"))
    = SumAmounts(SelectSeq(entries, LAMBDA e : e.entryType # "DEBIT"))

validateBalance(entries) ==
  LET totals == currencyTotals(entries, <<>>)
  IN \A c \in DOMAIN totals : totals[c].debits = totals[c].credits

\* Declarative totals, used by the properties.
DebitTotal(es, cur) ==
  SumAmounts(SelectSeq(es, LAMBDA e : e.entryType = "DEBIT" /\ e.currency = cur))
CreditTotal(es, cur) ==
  SumAmounts(SelectSeq(es, LAMBDA e : e.entryType = "CREDIT" /\ e.currency = cur))
BalancedPerCurrency(es) ==
  \A cur \in Currencies : DebitTotal(es, cur) = CreditTotal(es, cur)

NoCall == <<>>

Finished(res, txn, es) ==
  [op |-> "recordEntries", result |-> res,
   known |-> txn \in KnownTransactions,
   balanced |-> BalancedPerCurrency(es),
   wrote |-> ledger' # ledger]

\* recordEntries up to the point where the insert batch is handed to
\* prisma.$transaction: transaction lookup, then validateBalance.
recordEntriesWriteFirst(transactionId, entries) ==
  /\ inflight = NoCall
  /\ last.op = None
  /\ BagCardinality(ledger) + Len(entries) <= MaxRows
  /\ IF transactionId \notin KnownTransactions
       THEN /\ UNCHANGED <<ledger, inflight>>
            /\ last' = Finished("TRANSACTION_NOT_FOUND", transactionId, entries)
       ELSE IF ~validateBalance(entries)
         THEN /\ ledger' = ledger (+) SeqToBag(entries)
              /\ UNCHANGED inflight
              /\ last' = Finished("UNBALANCED_ENTRY", transactionId, entries)
         ELSE /\ inflight' = [transactionId |-> transactionId, entries |-> entries]
              /\ UNCHANGED <<ledger, last>>

recordEntries(transactionId, entries) ==
  /\ inflight = NoCall
  /\ last.op = None
  /\ BagCardinality(ledger) + Len(entries) <= MaxRows
  /\ IF transactionId \notin KnownTransactions
       THEN /\ UNCHANGED <<ledger, inflight>>
            /\ last' = Finished("TRANSACTION_NOT_FOUND", transactionId, entries)
       ELSE IF ~validateBalance(entries)
         THEN /\ UNCHANGED <<ledger, inflight>>
              /\ last' = Finished("UNBALANCED_ENTRY", transactionId, entries)
         ELSE /\ inflight' = [transactionId |-> transactionId, entries |-> entries]
              /\ UNCHANGED <<ledger, last>>

\* The controller and other callers hand over any entry set.
RecordEntries ==
  /\ inflight = NoCall
  /\ last.op = None
  /\ \E t \in TransactionIds, es \in EntrySets : recordEntries(t, es)

TwoLines(t, debitAccount, creditAccount, amount, currency) ==
  << [transactionId |-> t, accountCode |-> debitAccount, entryType |-> "DEBIT",
      amount |-> amount, currency |-> currency],
     [transactionId |-> t, accountCode |-> creditAccount, entryType |-> "CREDIT",
      amount |-> amount, currency |-> currency] >>

RecordPayment ==
  /\ inflight = NoCall
  /\ last.op = None
  /\ \E t \in TransactionIds, a \in Amounts, cur \in Currencies :
       recordEntries(t, TwoLines(t, CASH, MERCHANT_PAYABLE, a, cur))

RecordRefund ==
  /\ inflight = NoCall
  /\ last.op = None
  /\ \E t \in TransactionIds, a \in Amounts, cur \in Currencies :
       recordEntries(t, TwoLines(t, REFUND_PAYABLE, CASH, a, cur))

RecordFxSpread ==
  /\ inflight = NoCall
  /\ last.op = None
  /\ \E t \in TransactionIds, a \in Amounts, cur \in Currencies :
       recordEntries(t, TwoLines(t, FX_RECEIVABLE, FX_REVENUE, a, cur))

\* prisma.$transaction([...create]) : the rows become visible together.
CommitEntriesOneByOne ==
  /\ inflight # NoCall
  /\ IF Len(inflight.entries) <= 1
       THEN /\ ledger' = ledger (+) SeqToBag(inflight.entries)
            /\ inflight' = NoCall
            /\ last' = Finished("ok", inflight.transactionId, inflight.entries)
       ELSE /\ ledger' = ledger (+) SetToBag({Head(inflight.entries)})
            /\ inflight' = [inflight EXCEPT !.entries = Tail(@)]
            /\ UNCHANGED last

CommitEntries ==
  /\ inflight # NoCall
  /\ ledger' = ledger (+) SeqToBag(inflight.entries)
  /\ inflight' = NoCall
  /\ last' = Finished("ok", inflight.transactionId, inflight.entries)

\* getLedgerSummary(currency?) : one groupBy query, then the totals.
getLedgerSummary(currency) ==
  LET InFilter(r) == currency = None \/ r.currency = currency
      totalDebits ==
        BagAmount(ledger, {r \in DOMAIN ledger : InFilter(r) /\ r.entryType = "DEBIT"})
      totalCredits ==
        BagAmount(ledger, {r \in DOMAIN ledger : InFilter(r) /\ r.entryType # "DEBIT"})
  IN /\ last' = [op |-> "getLedgerSummary", currency |-> currency,
                 totalDebits |-> totalDebits, totalCredits |-> totalCredits,
                 isBalanced |-> (totalDebits = totalCredits),
                 during |-> inflight # NoCall]
     /\ UNCHANGED <<ledger, inflight>>

GetLedgerSummary == \E cur \in Currencies \cup {None} : getLedgerSummary(cur)

\* The caller takes the outcome of the call that finished last.
TakeResult ==
  /\ last.op # None
  /\ last' = [op |-> None]
  /\ UNCHANGED <<ledger, inflight>>

LedgerIdle ==
  /\ ledger = EmptyBag
  /\ inflight = NoCall
  /\ last = [op |-> None]

\* --------------------------------------------------------------- routing
\* JavaScript values that occur in rule conditions and context fields.
\* Strings of the model are never numeric strings.
Str(s) == [t |-> "string", v |-> s]
Num(n) == [t |-> "number", v |-> n]
Big(n) == [t |-> "bigint", v |-> n]
Arr(s) == [t |-> "array", v |-> s]
Undefined == [t |-> "undefined", v |-> None]
Cond(f, op, val) == [t |-> "condition", field |-> f, operator |-> op, value |-> val]
Match == "match"
NoMatch == "no-match"
Throw == "throw"
Outcome(b) == IF b THEN Match ELSE NoMatch

RouteCurrencies == {"USD", "EUR"}
RouteMethods == {"CARD", "BANK_TRANSFER"}
ProviderIds == {"p1", "p2", "p3"}

\* RoutingContext; the optional fields are absent.
Contexts == [currency : RouteCurrencies, paymentMethodType : RouteMethods,
             amount : 1..MaxRouteAmount]

getFieldValue(field, context) ==
  CASE field = "currency" -> Str(context.currency)
    [] field = "amount" -> Big(context.amount)
    [] field = "paymentMethodType" -> Str(context.paymentMethodType)
    [] OTHER -> Undefined

\* isEqual: BigInt(a) === BigInt(b) when either side is a bigint (BigInt of
\* a non-numeric string or of undefined throws), a === b otherwise.
isEqual(a, b) ==
  IF a.t = "bigint" \/ b.t = "bigint"
    THEN IF a.t \in {"bigint", "number"} /\ b.t \in {"bigint", "number"}
           THEN Outcome(a.v = b.v)
           ELSE Throw
    ELSE Outcome(a.t = b.t /\ a.t # "array" /\ a.v = b.v)

\* toNumber converts bigint and number and throws on anything else.
isNumeric(value) == value.t \in {"bigint", "number"}
toNumber(value) == value.v

includes(arr, x) ==
  \E i \in 1..Len(arr) : arr[i].t = x.t /\ arr[i].t # "array" /\ arr[i].v = x.v

compareValues(fieldValue, operator, conditionValue) ==
  CASE operator = "equals" -> isEqual(fieldValue, conditionValue)
    [] operator = "not_equals" ->
         IF isEqual(fieldValue, conditionValue) = Throw THEN Throw
         ELSE Outcome(isEqual(fieldValue, conditionValue) = NoMatch)
    [] operator = "in" ->
         Outcome(conditionValue.t = "array" /\ includes(conditionValue.v, fieldValue))
    [] operator = "not_in" ->
         Outcome(conditionValue.t = "array" /\ ~includes(conditionValue.v, fieldValue))
    [] operator \in {"greater_than", "less_than", "greater_than_or_equals",
                     "less_than_or_equals"} ->
         IF ~isNumeric(fieldValue) \/ ~isNumeric(conditionValue) THEN Throw
         ELSE CASE operator = "greater_than" ->
                     Outcome(toNumber(fieldValue) > toNumber(conditionValue))
                [] operator = "less_than" ->
                     Outcome(toNumber(fieldValue) < toNumber(conditionValue))
                [] operator = "greater_than_or_equals" ->
                     Outcome(toNumber(fieldValue) >= toNumber(conditionValue))
                [] OTHER ->
                     Outcome(toNumber(fieldValue) <= toNumber(conditionValue))
    [] operator = "between" ->
         IF conditionValue.t = "array" /\ Len(conditionValue.v) = 2
           THEN IF \/ ~isNumeric(fieldValue)
                   \/ ~isNumeric(conditionValue.v[1])
                   \/ ~isNumeric(conditionValue.v[2])
                  THEN Throw
                  ELSE Outcome(/\ toNumber(fieldValue) >= toNumber(conditionValue.v[1])
                               /\ toNumber(fieldValue) <= toNumber(conditionValue.v[2]))
           ELSE NoMatch
    [] OTHER -> NoMatch

\* evaluateCondition: compareValues inside try/catch, an error is a non-match.
evaluateCondition(condition, context) ==
  compareValues(getFieldValue(condition.field, context),
                condition.operator, condition.value) = Match

\* evaluateFieldCondition: a bare value is compared with isEqual (no
\* try/catch), a RuleCondition goes through evaluateCondition.
evaluateFieldCondition(fieldName, condition, context) ==
  IF condition.t # "condition"
    THEN isEqual(getFieldValue(fieldName, context), condition)
    ELSE Outcome(evaluateCondition(condition, context))

NamedFields == <<"currency", "amount", "paymentMethodType">>

\* The named-field part of evaluate, field by field in source order.
RECURSIVE evaluateNamed(_, _, _)
evaluateNamed(i, conditions, context) ==
  IF i > Len(NamedFields) THEN Match
  ELSE LET c == conditions[NamedFields[i]]
       IN IF c.t = "undefined" THEN evaluateNamed(i + 1, conditions, context)
          ELSE LET r == evaluateFieldCondition(NamedFields[i], c, context)
               IN IF r = Match THEN evaluateNamed(i + 1, conditions, context)
                  ELSE r

\* ConditionEvaluator.evaluate: Match, NoMatch or Throw.  A field of the
\* conditions object that is absent is Undefined; all/any default to <<>>.
evaluate(conditions, context) ==
  IF /\ Len(conditions.all) > 0
     /\ ~\A i \in 1..Len(conditions.all) : evaluateCondition(conditions.all[i], context)
    THEN NoMatch
  ELSE IF /\ Len(conditions.any) > 0
          /\ ~\E i \in 1..Len(conditions.any) : evaluateCondition(conditions.any[i], context)
    THEN NoMatch
  ELSE LET named == evaluateNamed(1, conditions, context)
       IN IF named # Match THEN named
          ELSE IF /\ conditions.amountMin.t # "undefined"
                  /\ context.amount < conditions.amountMin.v
            THEN NoMatch
          ELSE IF /\ conditions.amountMax.t # "undefined"
                  /\ context.amount > conditions.amountMax.v
            THEN NoMatch
          ELSE Match

\* ProviderScoreEvaluator.  Scores are kept exact: a sub-score is stored as
\* 40 times its value (ScoreUnit), the total as 4000 times its value.
ScoreUnit == 40

checkEligibility(provider, context) ==
  /\ provider.isActive
  /\ provider.status \notin {"INACTIVE", "MAINTENANCE"}
  /\ context.currency \in provider.supportedCurrencies
  /\ context.paymentMethodType \in provider.supportedMethods

Max2(a, b) == IF a >= b THEN a ELSE b
Min2(a, b) == IF a <= b THEN a ELSE b

\* A success-rate score that falls as the rate rises.
calculateFailureRateScore(successRate) ==
  ScoreUnit * (100 - Min2(100, Max2(0, successRate)))

\* successRate is given in percent.
calculateSuccessRateScore(successRate) ==
  ScoreUnit * Min2(100, Max2(0, successRate))

calculateAvailabilityScore(status) ==
  CASE status = "ACTIVE" -> ScoreUnit * 100
    [] status = "DEGRADED" -> ScoreUnit * 50
    [] OTHER -> 0

calculateLatencyScore(latencyMs) ==
  IF latencyMs < 100 THEN ScoreUnit * 100
  ELSE IF latencyMs < 300 THEN ScoreUnit * 100 - (latencyMs - 100) * 5
  ELSE IF latencyMs < 500 THEN ScoreUnit * 75 - (latencyMs - 300) * 5
  ELSE IF latencyMs < 1000 THEN ScoreUnit * 50 - (latencyMs - 500) * 4
  ELSE 0

\* cost is given in basis points (0.01 = 100).
calculateCostScore(cost) ==
  IF cost <= 0 THEN ScoreUnit * 100
  ELSE IF cost <= 100 THEN ScoreUnit * 100 - cost * 4
  ELSE IF cost <= 300 THEN ScoreUnit * 90 - (cost - 100) * 8
  ELSE IF cost <= 500 THEN ScoreUnit * 50 - (cost - 300) * 4
  ELSE Max2(0, ScoreUnit * 30 - (cost - 500) * 2)

calculatePriorityScore(priority) ==
  ScoreUnit * Max2(0, 100 - (priority - 1) * 10)

\* DEFAULT_SCORING_WEIGHTS, in hundredths.
WeightSuccessRate == 40
WeightAvailability == 25
WeightLatency == 15
WeightCost == 10
WeightPriority == 10
DefaultSuccessRate == 95
DefaultLatency == 200

evaluateProvider(provider, context, metrics) ==
  IF ~checkEligibility(provider, context)
    THEN [providerId |-> provider.id, totalScore |-> 0, eligible |-> FALSE]
    ELSE LET m == metrics[provider.id]
             successRate == IF m.known THEN m.successRate ELSE DefaultSuccessRate
             latency == IF m.known THEN m.averageLatency ELSE DefaultLatency
         IN [providerId |-> provider.id,
             totalScore |->
               calculateSuccessRateScore(successRate) * WeightSuccessRate
               + calculateAvailabilityScore(provider.status) * WeightAvailability
               + calculateLatencyScore(latency) * WeightLatency
               + calculateCostScore(0) * WeightCost
               + calculatePriorityScore(provider.priority) * WeightPriority,
             eligible |-> TRUE]

\* A sort that leaves the scores in directory order.
appendScore(sorted, s) == Append(sorted, s)

\* Array.prototype.sort with (a, b) => b.totalScore - a.totalScore: stable,
\* descending.
RECURSIVE insertByScore(_, _)
insertByScore(sorted, s) ==
  IF sorted = <<>> THEN <<s>>
  ELSE IF Head(sorted).totalScore >= s.totalScore
    THEN <<Head(sorted)>> \o insertByScore(Tail(sorted), s)
    ELSE <<s>> \o sorted

RECURSIVE sortByScore(_)
sortByScore(scores) ==
  IF scores = <<>> THEN <<>>
  ELSE insertByScore(sortByScore(SubSeq(scores, 1, Len(scores) - 1)),
                     scores[Len(scores)])

evaluateProviders(provs, context, metrics) ==
  sortByScore([i \in 1..Len(provs) |-> evaluateProvider(provs[i], context, metrics)])

\* Array.prototype.slice(from, to)
Slice(s, from, to) == SubSeq(s, from + 1, Min2(to, Len(s)))

\* getRulesForMerchant: the active rules, by ascending priority (the rules
\* table is kept in that order here).
getRulesForMerchant(ruleTable) == SelectSeq(ruleTable, LAMBDA r : r.isActive)

\* A rule loop without the break: the last rule that matches is kept.
RECURSIVE lastMatch(_, _, _)
lastMatch(rs, i, context) ==
  IF i > Len(rs) THEN 0
  ELSE LET r == evaluate(rs[i].conditions, context)
           rest == lastMatch(rs, i + 1, context)
       IN IF r = Throw \/ rest = -1 THEN -1
          ELSE IF rest # 0 THEN rest
          ELSE IF r = Match THEN i
          ELSE 0

\* The rule loop of selectProvider: index of the first rule that matches,
\* 0 if none, -1 if an evaluation throws before a match is found.
RECURSIVE firstMatch(_, _, _)
firstMatch(rs, i, context) ==
  IF i > Len(rs) THEN 0
  ELSE LET r == evaluate(rs[i].conditions, context)
       IN IF r = Throw THEN -1
          ELSE IF r = Match THEN i
          ELSE firstMatch(rs, i + 1, context)

Failure(e) == [error |-> e]

\* No selectProvider call has returned yet.
NoDecision == [error |-> "not called"]

providerIdsOf(scores) == [i \in 1..Len(scores) |-> scores[i].providerId]

selectProvider(context, ruleTable, provs, metrics) ==
  LET rs == getRulesForMerchant(ruleTable)
      m == firstMatch(rs, 1, context)
      scores == evaluateProviders(provs, context, metrics)
  IN IF m = -1 THEN Failure("Error evaluating rule")
     ELSE IF Len(provs) = 0 THEN Failure("No providers available for this merchant")
     ELSE IF m # 0 /\ \E i \in 1..Len(provs) : provs[i].id = rs[m].providerId
       THEN LET eligibleProviders ==
                  SelectSeq(scores, LAMBDA s : s.eligible /\ s.providerId # rs[m].providerId)
            IN [error |-> None,
                selectedProviderId |-> rs[m].providerId,
                fallbackProviderIds |-> providerIdsOf(Slice(eligibleProviders, 0, 2)),
                matchedRuleId |-> rs[m].id,
                score |-> 100 * ScoreUnit * 100,
                reason |-> "Matched routing rule"]
     ELSE LET eligibleProviders == SelectSeq(scores, LAMBDA s : s.eligible)
          IN IF eligibleProviders = <<>>
               THEN Failure("No eligible providers for this transaction")
               ELSE [error |-> None,
                     selectedProviderId |-> eligibleProviders[1].providerId,
                     fallbackProviderIds |-> providerIdsOf(Slice(eligibleProviders, 1, 3)),
                     matchedRuleId |-> None,
                     score |-> eligibleProviders[1].totalScore,
                     reason |-> "Selected by scoring algorithm"]

\* Inputs of the routing specification.
NoConditions ==
  [all |-> <<>>, any |-> <<>>, currency |-> Undefined, amount |-> Undefined,
   paymentMethodType |-> Undefined, amountMin |-> Undefined, amountMax |-> Undefined]

ConditionChoices ==
  { NoConditions,
    [NoConditions EXCEPT !.currency = Str("USD"), !.amountMin = Num(0),
                         !.amountMax = Num(MaxRouteAmount)],
    [NoConditions EXCEPT !.currency = Cond("currency", "equals", Str("EUR"))],
    [NoConditions EXCEPT !.all = <<Cond("amount", "greater_than", Num(1))>>] }

ProviderProfiles ==
  { [isActive |-> TRUE, status |-> "ACTIVE",
     supportedCurrencies |-> {"USD", "EUR"}, supportedMethods |-> {"CARD", "BANK_TRANSFER"}],
    [isActive |-> TRUE, status |-> "DEGRADED",
     supportedCurrencies |-> {"USD"}, supportedMethods |-> {"CARD", "BANK_TRANSFER"}],
    [isActive |-> TRUE, status |-> "ACTIVE",
     supportedCurrencies |-> {"USD", "EUR"}, supportedMethods |-> {"CARD"}],
    [isActive |-> TRUE, status |-> "MAINTENANCE",
     supportedCurrencies |-> {"USD", "EUR"}, supportedMethods |-> {"CARD", "BANK_TRANSFER"}],
    [isActive |-> TRUE, status |-> "INACTIVE",
     supportedCurrencies |-> {"USD", "EUR"}, supportedMethods |-> {"CARD", "BANK_TRANSFER"}],
    [isActive |-> FALSE, status |-> "ACTIVE",
     supportedCurrencies |-> {"USD", "EUR"}, supportedMethods |-> {"CARD", "BANK_TRANSFER"}] }

ProviderOrder == <<"p1", "p2", "p3">>

\* The merchant's active provider configs, ordered by priority: the first n
\* providers, the i-th with priority i.
Directories ==
  UNION { { [i \in 1..n |->
              [id |-> ProviderOrder[i], priority |-> i,
               isActive |-> f[i].isActive, status |-> f[i].status,
               supportedCurrencies |-> f[i].supportedCurrencies,
               supportedMethods |-> f[i].supportedMethods]] :
            f \in [1..n -> ProviderProfiles] } : n \in 0..3 }

RuleIds == <<"r1", "r2">>

\* The merchant's routing rules by ascending priority; the second rule, if
\* any, is an active catch-all.
RuleTables ==
  {<<>>}
  \cup { << [id |-> RuleIds[1], providerId |-> p, conditions |-> c, isActive |-> a] >> :
           p \in ProviderIds, c \in ConditionChoices, a \in BOOLEAN }
  \cup { << [id |-> RuleIds[1], providerId |-> p, conditions |-> c, isActive |-> TRUE],
            [id |-> RuleIds[2], providerId |-> q, conditions |-> NoConditions,
             isActive |-> TRUE] >> :
           p \in ProviderIds, q \in ProviderIds, c \in ConditionChoices \ {NoConditions} }

\* getProviderMetrics: {} when getMetrics returns null or throws (known is
\* FALSE), the provider's measured success rate and latency otherwise.
NoMetrics ==
  [p \in ProviderIds |-> [known |-> FALSE, successRate |-> 0, averageLatency |-> 0]]
MetricsChoices ==
  { NoMetrics,
    [NoMetrics EXCEPT !["p3"] =
       [known |-> TRUE, successRate |-> 100, averageLatency |-> 50]] }

SelectProvider ==
  \E context \in Contexts :
    /\ rcontext' = context
    /\ decision' = selectProvider(context, rules, providers, provMetrics)
    /\ UNCHANGED <<rules, providers, provMetrics>>

RouteInputs ==
  /\ rules \in RuleTables
  /\ providers \in Directories
  /\ provMetrics \in MetricsChoices
  /\ rcontext = None
  /\ decision = NoDecision


\* ------------------------------------------------------ PaymentService
\* createPayment, capturePayment, cancelPayment and refundPayment as
\* processes over the transaction table.  Every step is one database
\* operation together with the local work and the external calls (routing,
\* FX, provider adapter) that surround it; a status-history row is written in
\* the step of the update it follows, the history table being read by no
\* operation of the service.

Keys == {"k1"}

MAX_PROVIDER_RETRIES == 3

\* What adapter.authorize can answer (AuthorizeResponse.status), the errors
\* it can throw (a retryable and a non-retryable ProviderError, a plain
\* Error), and AdapterFactory.getAdapter failing before the adapter is called.
AuthorizeStatuses == {"authorized", "captured", "declined", "pending"}
ProviderErrorCodes == {"TIMEOUT", "CARD_DECLINED"}
PlainError == "Error"
NoAdapter == "PROVIDER_UNAVAILABLE"
AuthorizeOutcomes ==
  AuthorizeStatuses \cup ProviderErrorCodes \cup {PlainError, NoAdapter}

\* ProviderError.determineRetryable
determineRetryable(code) ==
  code \in {"NETWORK_ERROR", "TIMEOUT", "RATE_LIMITED", "PROVIDER_UNAVAILABLE"}

\* error instanceof ProviderError && error.isRetryable
isRetryable(outcome) ==
  outcome \in ProviderErrorCodes \cup {NoAdapter} /\ determineRetryable(outcome)

\* error.message
messageOf(outcome) ==
  CASE outcome = "TIMEOUT" -> "Request timed out"
    [] outcome = "CARD_DECLINED" -> "Card was declined"
    [] outcome = NoAdapter -> "No adapter registered for provider"
    [] OTHER -> "Adapter not initialized"

DeclineReason == "declined by provider"
AllProvidersFailed == "ALL_PROVIDERS_FAILED"
UniqueViolation == "P2002"

CreatePaymentRequests ==
  [idempotencyKey : Keys \cup {None},
   amount : {PaymentAmount},
   currency : RouteCurrencies,
   targetCurrency : {None, "USD"},
   paymentMethod : RouteMethods]

\* The requests of the concurrent specification: card payments in USD.
CardRequests ==
  {r \in CreatePaymentRequests :
     r.currency = "USD" /\ r.targetCurrency = None /\ r.paymentMethod = "CARD"}

\* The merchant's providers in the payment specifications: three candidates
\* for USD card payments, one for EUR card payments, none for bank transfers.
PayDirectory ==
  << [id |-> "p1", priority |-> 1, isActive |-> TRUE, status |-> "ACTIVE",
      supportedCurrencies |-> {"USD", "EUR"}, supportedMethods |-> {"CARD"}],
     [id |-> "p2", priority |-> 2, isActive |-> TRUE, status |-> "ACTIVE",
      supportedCurrencies |-> {"USD"}, supportedMethods |-> {"CARD"}],
     [id |-> "p3", priority |-> 3, isActive |-> TRUE, status |-> "DEGRADED",
      supportedCurrencies |-> {"USD"}, supportedMethods |-> {"CARD"}] >>

\* A row of the transaction table.  written is the last status write applied
\* to the row, as <<status before, status written>>.
NewTransaction(type, status, key, providerId, providerTransactionId, parent, amount) ==
  [type |-> type, status |-> status, idempotencyKey |-> key,
   providerId |-> providerId, providerTransactionId |-> providerTransactionId,
   failureReason |-> None, parentTransactionId |-> parent, amount |-> amount,
   written |-> <<>>]

\* prisma.transaction.update with a status in its data
setStatus(t, status) == [t EXCEPT !.status = status, !.written = <<t.status, status>>]

\* The history table after recordStatusChange(id, fromStatus, toStatus)
recordStatusChange(id, fromStatus, toStatus) ==
  [history EXCEPT ![id] = Append(@, <<fromStatus, toStatus>>)]

\* prisma.transaction.findUnique({ where: { idempotencyKey } }): the row's
\* id, 0 if there is none
findUniqueByKey(key) ==
  IF \E i \in 1..Len(txns) : txns[i].idempotencyKey = key
    THEN CHOOSE i \in 1..Len(txns) : txns[i].idempotencyKey = key
    ELSE 0

\* The uniqueness constraint of the transaction table on idempotencyKey.
idempotencyKeyTaken(key) ==
  key # None /\ \E i \in 1..Len(txns) : txns[i].idempotencyKey = key

\* What a call returns or throws.
toPaymentResponse(id, t) == [error |-> None, id |-> id, status |-> t.status]
Thrown(code, message) == [error |-> code, message |-> message]
Running == [error |-> "running"]

\* A client's call: the operation, its position, its locals, and what it did
\* so far (attempts made, providers contacted, updateMetrics calls).
NewCall(op, request) ==
  [op |-> op, pc |-> "idle", request |-> request, id |-> 0, existing |-> 0,
   candidates |-> <<>>, attempt |-> 0, attempts |-> <<>>, contacted |-> <<>>,
   metrics |-> <<>>, fx |-> FALSE, routed |-> FALSE,
   transaction |-> None, refundAmount |-> 0, result |-> Running]

IdleCall == NewCall(None, None)

Free(c) == calls[c].pc = "idle"

\* Calls that are about to insert a row.
Reserved == Cardinality({c \in DOMAIN calls : calls[c].pc \in {"create", "refund"}})

Done(call, result) == [call EXCEPT !.pc = "done", !.result = result]

\* A createPayment that converts and routes before it looks the idempotency
\* key up.
createPaymentRoutingFirst(c, request) ==
  LET existing == IF request.idempotencyKey # None
                    THEN findUniqueByKey(request.idempotencyKey)
                    ELSE 0
      call == [NewCall("createPayment", request) EXCEPT !.existing = existing]
      converts ==
        request.targetCurrency # None /\ request.targetCurrency # request.currency
      routingContext ==
        [currency |-> IF converts THEN request.targetCurrency ELSE request.currency,
         paymentMethodType |-> request.paymentMethod,
         amount |-> request.amount]
      routingDecision == selectProvider(routingContext, rules, providers, provMetrics)
  IN /\ Free(c)
     /\ UNCHANGED <<txns, history, attempters>>
     /\ IF existing # 0
          THEN calls' = [calls EXCEPT ![c] =
                 Done([call EXCEPT !.fx = converts, !.routed = TRUE],
                      toPaymentResponse(existing, txns[existing]))]
          ELSE /\ Len(txns) + Reserved < MaxTxns
               /\ \E converted \in (IF converts THEN BOOLEAN ELSE {TRUE}) :
                    calls' = [calls EXCEPT ![c] =
                      IF ~converted
                        THEN Done([call EXCEPT !.fx = TRUE],
                                  Thrown(PlainError, "No FX rate"))
                      ELSE IF routingDecision.error # None
                        THEN Done([call EXCEPT !.fx = converts, !.routed = TRUE],
                                  Thrown(PlainError, routingDecision.error))
                      ELSE [call EXCEPT
                              !.pc = "create", !.fx = converts, !.routed = TRUE,
                              !.candidates = <<routingDecision.selectedProviderId>>
                                             \o routingDecision.fallbackProviderIds]]

\* createPayment up to the routing decision: the idempotency lookup, the FX
\* conversion and selectProvider.
createPayment(c, request) ==
  LET existing == IF request.idempotencyKey # None
                    THEN findUniqueByKey(request.idempotencyKey)
                    ELSE 0
      call == [NewCall("createPayment", request) EXCEPT !.existing = existing]
      converts ==
        request.targetCurrency # None /\ request.targetCurrency # request.currency
      routingContext ==
        [currency |-> IF converts THEN request.targetCurrency ELSE request.currency,
         paymentMethodType |-> request.paymentMethod,
         amount |-> request.amount]
      routingDecision == selectProvider(routingContext, rules, providers, provMetrics)
  IN /\ Free(c)
     /\ UNCHANGED <<txns, history, attempters>>
     /\ IF existing # 0
          THEN calls' = [calls EXCEPT ![c] =
                 Done(call, toPaymentResponse(existing, txns[existing]))]
          ELSE /\ Len(txns) + Reserved < MaxTxns
               /\ \E converted \in (IF converts THEN BOOLEAN ELSE {TRUE}) :
                    calls' = [calls EXCEPT ![c] =
                      IF ~converted
                        THEN Done([call EXCEPT !.fx = TRUE],
                                  Thrown(PlainError, "No FX rate"))
                      ELSE IF routingDecision.error # None
                        THEN Done([call EXCEPT !.fx = converts, !.routed = TRUE],
                                  Thrown(PlainError, routingDecision.error))
                      ELSE [call EXCEPT
                              !.pc = "create", !.fx = converts, !.routed = TRUE,
                              !.candidates = <<routingDecision.selectedProviderId>>
                                             \o routingDecision.fallbackProviderIds]]

CreatePayment(requests) ==
  \E c \in DOMAIN calls :
    /\ Free(c)
    /\ \E request \in requests : createPayment(c, request)

\* A create step that, on a duplicate idempotency key, goes on with the row
\* that holds the key.
createTransactionAdoptingDuplicate(c) ==
  LET call == calls[c]
      key == call.request.idempotencyKey
  IN /\ call.pc = "create"
     /\ IF idempotencyKeyTaken(key)
          THEN /\ calls' = [calls EXCEPT ![c] =
                    [call EXCEPT !.pc = "attempt", !.id = findUniqueByKey(key),
                                 !.attempt = 1]]
               /\ UNCHANGED <<txns, history>>
          ELSE /\ txns' = Append(txns, NewTransaction("PAYMENT", "PENDING", key, None,
                                                      None, 0, call.request.amount))
               /\ history' = Append(history, << <<None, "PENDING">> >>)
               /\ calls' = [calls EXCEPT ![c] =
                    [call EXCEPT !.pc = "attempt", !.id = Len(txns) + 1,
                                 !.attempt = 1]]
     /\ UNCHANGED attempters

\* prisma.transaction.create of the PENDING row and its first history row.
\* A duplicate idempotency key makes the insert fail; the error leaves
\* createPayment uncaught.
createTransaction(c) ==
  LET call == calls[c]
      key == call.request.idempotencyKey
  IN /\ call.pc = "create"
     /\ IF idempotencyKeyTaken(key)
          THEN /\ calls' = [calls EXCEPT ![c] =
                    Done(call, Thrown(UniqueViolation, "Unique constraint failed"))]
               /\ UNCHANGED <<txns, history>>
          ELSE /\ txns' = Append(txns, NewTransaction("PAYMENT", "PENDING", key, None,
                                                      None, 0, call.request.amount))
               /\ history' = Append(history, << <<None, "PENDING">> >>)
               /\ calls' = [calls EXCEPT ![c] =
                    [call EXCEPT !.pc = "attempt", !.id = Len(txns) + 1,
                                 !.attempt = 1]]
     /\ UNCHANGED attempters

CreateTransaction == \E c \in DOMAIN calls : createTransaction(c)

\* executePaymentWithProvider up to the adapter: the row gets the provider
\* and PROCESSING, the history a PENDING -> PROCESSING row.
executePaymentWithProvider(c) ==
  LET call == calls[c]
      providerId == call.candidates[call.attempt]
  IN /\ call.pc = "attempt"
     /\ txns' = [txns EXCEPT ![call.id] =
          [setStatus(@, "PROCESSING") EXCEPT !.providerId = providerId]]
     /\ history' = recordStatusChange(call.id, "PENDING", "PROCESSING")
     /\ calls' = [calls EXCEPT ![c] = [call EXCEPT !.pc = "authorize"]]
     /\ UNCHANGED attempters

ExecutePaymentWithProvider == \E c \in DOMAIN calls : executePaymentWithProvider(c)

\* An attempt loop that goes on to the next candidate after any error.
authorizeRetryingEveryError(c, outcome) ==
  LET call == calls[c]
      id == call.id
      key == call.request.idempotencyKey
      providerId == call.candidates[call.attempt]
      success == outcome \in {"captured", "authorized"}
      newStatus == IF outcome = "captured" THEN "COMPLETED"
                   ELSE IF outcome = "authorized" THEN "PENDING"
                   ELSE "FAILED"
      tried == [call EXCEPT
                  !.attempts = Append(@, [providerId |-> providerId, outcome |-> outcome])]
      called == IF outcome = NoAdapter THEN tried
                ELSE [tried EXCEPT !.contacted = Append(@, providerId),
                                   !.metrics = Append(@, <<providerId, success>>)]
      more == call.attempt < Min2(Len(call.candidates), MAX_PROVIDER_RETRIES)
  IN /\ call.pc = "authorize"
     /\ attempters' =
          IF key # None /\ outcome # NoAdapter /\ call.contacted = <<>>
            THEN [attempters EXCEPT ![key] = @ + 1]
            ELSE attempters
     /\ IF outcome \in AuthorizeStatuses
          THEN /\ txns' = [txns EXCEPT ![id] =
                    [setStatus(@, newStatus) EXCEPT
                       !.providerTransactionId = "ptx" \o ToString(id),
                       !.failureReason = IF success THEN @ ELSE DeclineReason]]
               /\ history' = recordStatusChange(id, "PROCESSING", newStatus)
               /\ calls' = [calls EXCEPT ![c] =
                    Done(called,
                         [error |-> None, id |-> id, status |-> newStatus])]
          ELSE /\ UNCHANGED <<txns, history>>
               /\ calls' = [calls EXCEPT ![c] =
                    IF more
                      THEN [called EXCEPT !.pc = "attempt", !.attempt = @ + 1]
                      ELSE [called EXCEPT !.pc = "failed"]]

\* The rest of an attempt: getAdapter, adapter.authorize, and either the
\* status mapping with its update, history row and updateMetrics, or the
\* catch blocks of executePaymentWithProvider and of the attempt loop.
authorize(c, outcome) ==
  LET call == calls[c]
      id == call.id
      key == call.request.idempotencyKey
      providerId == call.candidates[call.attempt]
      success == outcome \in {"captured", "authorized"}
      newStatus == IF outcome = "captured" THEN "COMPLETED"
                   ELSE IF outcome = "authorized" THEN "PENDING"
                   ELSE "FAILED"
      tried == [call EXCEPT
                  !.attempts = Append(@, [providerId |-> providerId, outcome |-> outcome])]
      called == IF outcome = NoAdapter THEN tried
                ELSE [tried EXCEPT !.contacted = Append(@, providerId),
                                   !.metrics = Append(@, <<providerId, success>>)]
      more == call.attempt < Min2(Len(call.candidates), MAX_PROVIDER_RETRIES)
  IN /\ call.pc = "authorize"
     /\ attempters' =
          IF key # None /\ outcome # NoAdapter /\ call.contacted = <<>>
            THEN [attempters EXCEPT ![key] = @ + 1]
            ELSE attempters
     /\ IF outcome \in AuthorizeStatuses
          THEN /\ txns' = [txns EXCEPT ![id] =
                    [setStatus(@, newStatus) EXCEPT
                       !.providerTransactionId = "ptx" \o ToString(id),
                       !.failureReason = IF success THEN @ ELSE DeclineReason]]
               /\ history' = recordStatusChange(id, "PROCESSING", newStatus)
               /\ calls' = [calls EXCEPT ![c] =
                    Done(called,
                         [error |-> None, id |-> id, status |-> newStatus])]
          ELSE /\ UNCHANGED <<txns, history>>
               /\ calls' = [calls EXCEPT ![c] =
                    IF isRetryable(outcome) /\ more
                      THEN [called EXCEPT !.pc = "attempt", !.attempt = @ + 1]
                      ELSE [called EXCEPT !.pc = "failed"]]

Authorize ==
  \E c \in DOMAIN calls :
    /\ calls[c].pc = "authorize"
    /\ \E outcome \in AuthorizeOutcomes : authorize(c, outcome)

\* lastError?.message ?? 'All payment providers failed'
lastErrorMessage(call) ==
  IF call.attempts = <<>> THEN "All payment providers failed"
  ELSE messageOf(call.attempts[Len(call.attempts)].outcome)

\* The end of createPayment after the attempt loop: updateTransactionStatus
\* (read the current status, write FAILED and the failure reason, add the
\* history row) and the ALL_PROVIDERS_FAILED error.
updateTransactionStatus(c) ==
  LET call == calls[c]
      id == call.id
      current == txns[id].status
  IN /\ call.pc = "failed"
     /\ txns' = [txns EXCEPT ![id] =
          [setStatus(@, "FAILED") EXCEPT !.failureReason = lastErrorMessage(call)]]
     /\ history' = recordStatusChange(id, current, "FAILED")
     /\ calls' = [calls EXCEPT ![c] =
          Done(call,
               Thrown(AllProvidersFailed, "All payment providers failed"))]
     /\ UNCHANGED attempters

UpdateTransactionStatus == \E c \in DOMAIN calls : updateTransactionStatus(c)

\* What adapter.capture, adapter.cancel and adapter.refund can do: succeed,
\* throw a ProviderError or a plain Error; getAdapter can fail before them.
OperationErrors == {"TIMEOUT", PlainError, NoAdapter}

\* The error a capture, cancel or refund call ends with: a ProviderError
\* thrown inside the try is wrapped in PaymentError.providerError, anything
\* else is rethrown as it is.
operationError(outcome) ==
  IF outcome = "TIMEOUT" THEN Thrown("PROVIDER_ERROR", messageOf(outcome))
  ELSE Thrown(outcome, messageOf(outcome))

\* The checks capturePayment, cancelPayment and refundPayment start with:
\* the error they throw, None if the call goes on.
precondition(id, status, needsProvider) ==
  IF id > Len(txns) THEN "NOT_FOUND"
  ELSE IF txns[id].status # status THEN "INVALID_STATUS"
  ELSE IF /\ needsProvider
          /\ (txns[id].providerId = None \/ txns[id].providerTransactionId = None)
    THEN "INVALID_REQUEST"
  ELSE None

\* A capturePayment without the PENDING precondition.
capturePaymentAnyStatus(c, id) ==
  LET call == [NewCall("capturePayment", [id |-> id]) EXCEPT !.id = id]
      error == IF id > Len(txns) THEN "NOT_FOUND"
               ELSE precondition(id, txns[id].status, TRUE)
  IN /\ Free(c)
     /\ calls' = [calls EXCEPT ![c] =
          IF error # None THEN Done(call, Thrown(error, "capture refused"))
          ELSE [call EXCEPT !.pc = "capture", !.transaction = txns[id]]]
     /\ UNCHANGED <<txns, history, attempters>>

capturePayment(c, id) ==
  LET call == [NewCall("capturePayment", [id |-> id]) EXCEPT !.id = id]
      error == precondition(id, "PENDING", TRUE)
  IN /\ Free(c)
     /\ calls' = [calls EXCEPT ![c] =
          IF error # None THEN Done(call, Thrown(error, "capture refused"))
          ELSE [call EXCEPT !.pc = "capture", !.transaction = txns[id]]]
     /\ UNCHANGED <<txns, history, attempters>>

CapturePayment ==
  \E c \in DOMAIN calls :
    /\ Free(c)
    /\ \E id \in 1..MaxTxns : capturePayment(c, id)

\* A capture that updates the row before it calls the adapter.
captureUpdatingFirst(c, outcome) ==
  LET call == calls[c]
      id == call.id
      providerId == call.transaction.providerId
  IN /\ call.pc = "capture"
     /\ txns' = [txns EXCEPT ![id] = setStatus(@, "COMPLETED")]
     /\ history' = recordStatusChange(id, "PENDING", "COMPLETED")
     /\ calls' = [calls EXCEPT ![c] =
          IF outcome = "ok"
            THEN Done([call EXCEPT !.contacted = <<providerId>>,
                                   !.metrics = << <<providerId, TRUE>> >>],
                      [error |-> None, id |-> id, status |-> "COMPLETED"])
            ELSE Done([call EXCEPT !.contacted =
                         IF outcome = NoAdapter THEN <<>> ELSE <<providerId>>],
                      operationError(outcome))]
     /\ UNCHANGED attempters

\* getAdapter, adapter.capture, the update to COMPLETED, its history row and
\* updateMetrics(providerId, true, 0).
capture(c, outcome) ==
  LET call == calls[c]
      id == call.id
      providerId == call.transaction.providerId
  IN /\ call.pc = "capture"
     /\ IF outcome = "ok"
          THEN /\ txns' = [txns EXCEPT ![id] = setStatus(@, "COMPLETED")]
               /\ history' = recordStatusChange(id, "PENDING", "COMPLETED")
               /\ calls' = [calls EXCEPT ![c] =
                    Done([call EXCEPT !.contacted = <<providerId>>,
                                      !.metrics = << <<providerId, TRUE>> >>],
                         [error |-> None, id |-> id, status |-> "COMPLETED"])]
          ELSE /\ UNCHANGED <<txns, history>>
               /\ calls' = [calls EXCEPT ![c] =
                    Done([call EXCEPT !.contacted =
                            IF outcome = NoAdapter THEN <<>> ELSE <<providerId>>],
                         operationError(outcome))]
     /\ UNCHANGED attempters

Capture ==
  \E c \in DOMAIN calls :
    /\ calls[c].pc = "capture"
    /\ \E outcome \in {"ok"} \cup OperationErrors : capture(c, outcome)

cancelPayment(c, id) ==
  LET call == [NewCall("cancelPayment", [id |-> id]) EXCEPT !.id = id]
      error == precondition(id, "PENDING", FALSE)
  IN /\ Free(c)
     /\ calls' = [calls EXCEPT ![c] =
          IF error # None THEN Done(call, Thrown(error, "cancel refused"))
          ELSE [call EXCEPT !.pc = "cancel", !.transaction = txns[id]]]
     /\ UNCHANGED <<txns, history, attempters>>

CancelPayment ==
  \E c \in DOMAIN calls :
    /\ Free(c)
    /\ \E id \in 1..MaxTxns : cancelPayment(c, id)

\* The rest of cancelPayment: without a provider on the row that was read,
\* the update to CANCELLED and its history row; with one, getAdapter and
\* adapter.cancel first.
cancel(c, outcome) ==
  LET call == calls[c]
      id == call.id
      direct == \/ call.transaction.providerId = None
                \/ call.transaction.providerTransactionId = None
  IN /\ call.pc = "cancel"
     /\ IF direct \/ outcome = "ok"
          THEN /\ txns' = [txns EXCEPT ![id] = setStatus(@, "CANCELLED")]
               /\ history' = recordStatusChange(id, "PENDING", "CANCELLED")
               /\ calls' = [calls EXCEPT ![c] =
                    Done([call EXCEPT !.contacted =
                            IF direct THEN <<>> ELSE <<call.transaction.providerId>>],
                         [error |-> None, id |-> id, status |-> "CANCELLED"])]
          ELSE /\ UNCHANGED <<txns, history>>
               /\ calls' = [calls EXCEPT ![c] =
                    Done([call EXCEPT !.contacted =
                            IF outcome = NoAdapter THEN <<>>
                            ELSE <<call.transaction.providerId>>],
                         operationError(outcome))]
     /\ UNCHANGED attempters

Cancel ==
  \E c \in DOMAIN calls :
    /\ calls[c].pc = "cancel"
    /\ \E outcome \in {"ok"} \cup OperationErrors : cancel(c, outcome)

\* request.amount of a refund; 0 stands for an absent amount.
RefundAmounts == 0..(PaymentAmount + 1)

refundPayment(c, id, amount) ==
  LET call == [NewCall("refundPayment", [id |-> id, amount |-> amount]) EXCEPT !.id = id]
      error == precondition(id, "COMPLETED", TRUE)
  IN /\ Free(c)
     /\ error = None => Len(txns) + Reserved < MaxTxns
     /\ calls' = [calls EXCEPT ![c] =
          IF error # None THEN Done(call, Thrown(error, "refund refused"))
          ELSE [call EXCEPT !.pc = "refund", !.transaction = txns[id],
                            !.refundAmount = IF amount = 0 THEN txns[id].amount
                                             ELSE amount]]
     /\ UNCHANGED <<txns, history, attempters>>

RefundPayment ==
  \E c \in DOMAIN calls :
    /\ Free(c)
    /\ \E id \in 1..MaxTxns, amount \in RefundAmounts : refundPayment(c, id, amount)

\* RefundResponse.status
RefundStatuses == {"pending", "completed", "failed"}

\* A refund that moves the original to REFUNDED whatever the amount.
refundAlwaysFull(c, outcome) ==
  LET call == calls[c]
      id == call.id
      t == call.transaction
      refundTransaction ==
        NewTransaction("REFUND",
                       IF outcome = "completed" THEN "COMPLETED" ELSE "PENDING",
                       None, t.providerId, "rfx", id, call.refundAmount)
  IN /\ call.pc = "refund"
     /\ IF outcome \in RefundStatuses
          THEN /\ txns' = Append([txns EXCEPT ![id] = setStatus(@, "REFUNDED")],
                                 refundTransaction)
               /\ history' = Append(recordStatusChange(id, "COMPLETED", "REFUNDED"), <<>>)
               /\ calls' = [calls EXCEPT ![c] =
                    Done([call EXCEPT !.contacted = <<t.providerId>>],
                         [error |-> None, id |-> Len(txns) + 1,
                          status |-> refundTransaction.status])]
          ELSE /\ UNCHANGED <<txns, history>>
               /\ calls' = [calls EXCEPT ![c] =
                    Done([call EXCEPT !.contacted =
                            IF outcome = NoAdapter THEN <<>> ELSE <<t.providerId>>],
                         operationError(outcome))]
     /\ UNCHANGED attempters

\* The rest of refundPayment: getAdapter, adapter.refund, the REFUND row, and
\* for a refund of at least the original amount the update of the original
\* to REFUNDED with its history row.
refund(c, outcome) ==
  LET call == calls[c]
      id == call.id
      t == call.transaction
      refundTransaction ==
        NewTransaction("REFUND",
                       IF outcome = "completed" THEN "COMPLETED" ELSE "PENDING",
                       None, t.providerId, "rfx", id, call.refundAmount)
      full == call.refundAmount >= t.amount
  IN /\ call.pc = "refund"
     /\ IF outcome \in RefundStatuses
          THEN /\ txns' = IF full
                            THEN Append([txns EXCEPT ![id] = setStatus(@, "REFUNDED")],
                                        refundTransaction)
                            ELSE Append(txns, refundTransaction)
               /\ history' = IF full
                               THEN Append(recordStatusChange(id, "COMPLETED", "REFUNDED"),
                                           <<>>)
                               ELSE Append(history, <<>>)
               /\ calls' = [calls EXCEPT ![c] =
                    Done([call EXCEPT !.contacted = <<t.providerId>>],
                         [error |-> None, id |-> Len(txns) + 1,
                          status |-> refundTransaction.status])]
          ELSE /\ UNCHANGED <<txns, history>>
               /\ calls' = [calls EXCEPT ![c] =
                    Done([call EXCEPT !.contacted =
                            IF outcome = NoAdapter THEN <<>> ELSE <<t.providerId>>],
                         operationError(outcome))]
     /\ UNCHANGED attempters

Refund ==
  \E c \in DOMAIN calls :
    /\ calls[c].pc = "refund"
    /\ \E outcome \in RefundStatuses \cup OperationErrors : refund(c, outcome)

\* The call's promise settles: the client has its result and is free for
\* its next call.
Return ==
  \E c \in DOMAIN calls :
    /\ calls[c].pc = "done"
    /\ calls' = [calls EXCEPT ![c] = IdleCall]
    /\ UNCHANGED <<txns, history, attempters>>

PayIdle ==
  /\ txns = <<>>
  /\ history = <<>>
  /\ attempters = [k \in Keys |-> 0]

RouteIdle ==
  /\ rules = <<>>
  /\ providers = <<>>
  /\ provMetrics = NoMetrics
  /\ rcontext = None
  /\ decision = NoDecision

\* ----------------------------------------------------------- rule cache
\* RoutingService with its rule cache: selectProvider as the steps between
\* its awaits (cache get, database read, cache set) next to createRule,
\* updateRule and deleteRule (database write, cache delete).  Two clients
\* call selectProvider, one administers the rules; all rules are
\* unconditional and the context is fixed.
Selectors == {"s1", "s2"}
EmptyCache == [hit |-> FALSE, rules |-> <<>>]

\* A call record: found is the rule list the call works with, quiet tells
\* that no rule mutation was under way when the call started nor began since.
IdleRuleCall ==
  [op |-> None, pc |-> "idle", found |-> <<>>, quiet |-> FALSE, result |-> NoDecision]

\* The rest of selectProvider once the rule list is at hand.
decide(found) ==
  selectProvider([currency |-> "USD", paymentMethodType |-> "CARD", amount |-> 1],
                 found, providers, provMetrics)

\* selectProvider up to the answer of cacheService.get: a cached list is
\* used as it is, otherwise the database is asked next.
GetCachedRules ==
  \E c \in Selectors :
    /\ ruleCalls[c].pc = "idle"
    /\ LET quiet == ruleCalls["admin"].pc \in {"idle", "done"}
       IN IF rulesCache.hit
            THEN ruleCalls' = [ruleCalls EXCEPT ![c] =
                   [op |-> "selectProvider", pc |-> "done", found |-> rulesCache.rules,
                    quiet |-> quiet, result |-> decide(rulesCache.rules)]]
            ELSE ruleCalls' = [ruleCalls EXCEPT ![c] =
                   [op |-> "selectProvider", pc |-> "find", found |-> <<>>,
                    quiet |-> quiet, result |-> NoDecision]]
    /\ UNCHANGED <<rules, rulesCache>>

\* prisma.routingRule.findMany({isActive: true}, orderBy priority)
FindRules ==
  \E c \in Selectors :
    /\ ruleCalls[c].pc = "find"
    /\ ruleCalls' = [ruleCalls EXCEPT ![c].pc = "set",
                                      ![c].found = getRulesForMerchant(rules)]
    /\ UNCHANGED <<rules, rulesCache>>

\* cacheService.setWithTTL, then the rest of selectProvider.
CacheRules ==
  \E c \in Selectors :
    /\ ruleCalls[c].pc = "set"
    /\ rulesCache' = [hit |-> TRUE, rules |-> ruleCalls[c].found]
    /\ ruleCalls' = [ruleCalls EXCEPT ![c].pc = "done",
                                      ![c].result = decide(ruleCalls[c].found)]
    /\ UNCHANGED rules

\* The entry's TTL runs out.
ExpireRulesCache ==
  /\ rulesCache.hit
  /\ rulesCache' = EmptyCache
  /\ UNCHANGED <<rules, ruleCalls>>

\* A rule mutation has written its row and has its cache delete ahead; the
\* selectProvider calls in flight overlap it.
mutating(op) ==
  [c \in DOMAIN ruleCalls |->
     IF c = "admin"
       THEN [IdleRuleCall EXCEPT !.op = op, !.pc = "invalidate"]
     ELSE IF ruleCalls[c].pc # "idle"
       THEN [ruleCalls[c] EXCEPT !.quiet = FALSE]
     ELSE ruleCalls[c]]

\* createRule up to the row's insertion; the rule takes the place its
\* priority gives it.
CreateRule ==
  \E id \in {"r1", "r2"}, p \in {"p1", "p2"}, active \in BOOLEAN, at \in 0..Len(rules) :
    /\ \A i \in 1..Len(rules) : rules[i].id # id
    /\ ruleCalls["admin"].pc = "idle"
    /\ rules' = SubSeq(rules, 1, at)
                \o << [id |-> id, providerId |-> p, conditions |-> NoConditions,
                       isActive |-> active] >>
                \o SubSeq(rules, at + 1, Len(rules))
    /\ ruleCalls' = mutating("createRule")
    /\ UNCHANGED rulesCache

\* updateRule up to the row's update (providerId and isActive given), or
\* to its end when the rule does not exist.
UpdateRule ==
  \E id \in {"r1", "r2"}, p \in {"p1", "p2"}, active \in BOOLEAN :
    /\ ruleCalls["admin"].pc = "idle"
    /\ IF \E i \in 1..Len(rules) : rules[i].id = id
         THEN /\ rules' = [i \in 1..Len(rules) |->
                             IF rules[i].id = id
                               THEN [rules[i] EXCEPT !.providerId = p, !.isActive = active]
                               ELSE rules[i]]
              /\ ruleCalls' = mutating("updateRule")
         ELSE /\ rules' = rules
              /\ ruleCalls' = [ruleCalls EXCEPT !["admin"] =
                   [IdleRuleCall EXCEPT !.op = "updateRule", !.pc = "done"]]
    /\ UNCHANGED rulesCache

\* deleteRule up to the row's deletion, or to its end when the rule does
\* not exist.
DeleteRule ==
  \E id \in {"r1", "r2"} :
    /\ ruleCalls["admin"].pc = "idle"
    /\ IF \E i \in 1..Len(rules) : rules[i].id = id
         THEN /\ rules' = SelectSeq(rules, LAMBDA r : r.id # id)
              /\ ruleCalls' = mutating("deleteRule")
         ELSE /\ rules' = rules
              /\ ruleCalls' = [ruleCalls EXCEPT !["admin"] =
                   [IdleRuleCall EXCEPT !.op = "deleteRule", !.pc = "done"]]
    /\ UNCHANGED rulesCache

\* invalidateRulesCache, after which the mutation returns.
InvalidateRulesCache ==
  /\ ruleCalls["admin"].pc = "invalidate"
  /\ rulesCache' = EmptyCache
  /\ ruleCalls' = [ruleCalls EXCEPT !["admin"].pc = "done"]
  /\ UNCHANGED rules

\* A call's promise settles and its client is free for the next call.
ReturnRules ==
  \E c \in DOMAIN ruleCalls :
    /\ ruleCalls[c].pc = "done"
    /\ ruleCalls' = [ruleCalls EXCEPT ![c] = IdleRuleCall]
    /\ UNCHANGED <<rules, rulesCache>>

CacheIdle ==
  /\ rulesCache = EmptyCache
  /\ ruleCalls = <<>>

\* -------------------------------------------------------- reconciliation
\* ReconciliationService.  A report row keeps, next to its columns, the
\* request it was made from and the local transactions the run read.  The
\* report table holds one report: resolveDiscrepancy touches the row it
\* names and no other.
MaxSettlement == 2

\* request.settlementData: at least one record, ids may repeat.
SettlementLists ==
  UNION { [1..n -> [transactionId : {"t1", "t2"}, amount : {900, 1000},
                    status : {"COMPLETED", "PENDING"}]] : n \in 1..MaxSettlement }

\* What prisma.transaction.findMany returns: rows with distinct ids.
LocalTables ==
  LET row(id) == [id |-> id, amount |-> 1000, status |-> "COMPLETED"]
  IN { <<>>, <<row("t1")>>, <<row("t2")>>, <<row("t1"), row("t2")>> }

\* discrepancies.push({id: `disc_${discrepancyIdx++}`, ...})
pushDiscrepancy(discrepancies, transactionId, type) ==
  Append(discrepancies,
         [id |-> Len(discrepancies), transactionId |-> transactionId,
          type |-> type, resolution |-> None])

\* localMap.get(id) and discrepancies.findIndex((d) => d.id === id): the
\* index of the first element with that id, 0 when there is none.
indexOfId(s, id) ==
  IF \E i \in 1..Len(s) : s[i].id = id
    THEN CHOOSE i \in 1..Len(s) : s[i].id = id /\ \A j \in 1..(i - 1) : s[j].id # id
    ELSE 0

\* The loop over request.settlementData, from record i on.
RECURSIVE checkProviderRecords(_, _, _, _)
checkProviderRecords(settlementData, local, i, acc) ==
  IF i > Len(settlementData) THEN acc
  ELSE LET providerRecord == settlementData[i]
           l == indexOfId(local, providerRecord.transactionId)
           d0 == acc.discrepancies
       IN IF l = 0
            THEN checkProviderRecords(settlementData, local, i + 1,
                   [acc EXCEPT !.discrepancies =
                      pushDiscrepancy(d0, providerRecord.transactionId, "MISSING_IN_DB")])
            ELSE LET d1 == IF local[l].amount # providerRecord.amount
                             THEN pushDiscrepancy(d0, providerRecord.transactionId,
                                                  "AMOUNT_MISMATCH")
                             ELSE d0
                     d2 == IF local[l].status # providerRecord.status
                             THEN pushDiscrepancy(d1, providerRecord.transactionId,
                                                  "STATUS_MISMATCH")
                             ELSE d1
                 IN checkProviderRecords(settlementData, local, i + 1,
                      [discrepancies |-> d2,
                       matched |-> IF d2 = d0 THEN acc.matched + 1 ELSE acc.matched])

\* The loop over the local transactions, from row i on.
RECURSIVE checkLocalRecords(_, _, _, _)
checkLocalRecords(local, settlementData, i, discrepancies) ==
  IF i > Len(local) THEN discrepancies
  ELSE checkLocalRecords(local, settlementData, i + 1,
         IF \E k \in 1..Len(settlementData) : settlementData[k].transactionId = local[i].id
           THEN discrepancies
           ELSE pushDiscrepancy(discrepancies, local[i].id, "MISSING_IN_PROVIDER"))

\* reconcile: the report row it creates.
reconcile(settlementData, local) ==
  LET first == checkProviderRecords(settlementData, local, 1,
                                    [discrepancies |-> <<>>, matched |-> 0])
      discrepancies == checkLocalRecords(local, settlementData, 1, first.discrepancies)
  IN [status |-> IF Len(discrepancies) > 0 THEN "REQUIRES_REVIEW" ELSE "COMPLETED",
      totalTransactions |->
        Cardinality({settlementData[k].transactionId : k \in 1..Len(settlementData)}
                    \cup {local[i].id : i \in 1..Len(local)}),
      matchedTransactions |-> first.matched,
      unmatchedTransactions |-> Len(discrepancies),
      discrepancies |-> discrepancies,
      reviewedAt |-> FALSE,
      reviewedBy |-> None,
      settlementData |-> settlementData,
      localTransactions |-> local]

IdleReconCall ==
  [op |-> None, pc |-> "idle", reportId |-> 0, discrepancyId |-> 0,
   discrepancies |-> <<>>, resolvedBy |-> None, error |-> None]

Reconcile ==
  \E c \in DOMAIN reconCalls, settlementData \in SettlementLists, local \in LocalTables :
    /\ reconCalls[c].pc = "idle"
    /\ reports = <<>>
    /\ reports' = Append(reports, reconcile(settlementData, local))
    /\ reconCalls' = [reconCalls EXCEPT ![c] =
         [IdleReconCall EXCEPT !.op = "reconcile", !.pc = "done",
                               !.reportId = Len(reports) + 1]]

\* A resolveDiscrepancy that marks the report as reviewed before it looks
\* the discrepancy up.
ResolveDiscrepancyStampingFirst ==
  \E c \in DOMAIN reconCalls, reportId \in 1..(Len(reports) + 1),
     discrepancyId \in 0..(2 * MaxSettlement) :
    /\ reconCalls[c].pc = "idle"
    /\ LET known == reportId \in 1..Len(reports)
           discrepancies == IF known THEN reports[reportId].discrepancies ELSE <<>>
           discIdx == indexOfId(discrepancies, discrepancyId)
       IN /\ reports' = IF known
                          THEN [reports EXCEPT ![reportId].reviewedBy = "ops"]
                          ELSE reports
          /\ reconCalls' = [reconCalls EXCEPT ![c] =
               [op |-> "resolveDiscrepancy",
                pc |-> IF discIdx = 0 THEN "done" ELSE "update",
                reportId |-> reportId, discrepancyId |-> discrepancyId,
                discrepancies |->
                  IF discIdx = 0 THEN <<>>
                  ELSE [discrepancies EXCEPT ![discIdx].resolution = "force_match"],
                resolvedBy |-> "ops",
                error |-> IF discIdx = 0 THEN "NOT_FOUND" ELSE None]]

\* resolveDiscrepancy up to prisma.reconciliationReport.update: the report
\* is read, the discrepancy found in it and resolved in the call's copy of
\* the list; an unknown report or discrepancy ends the call with notFound.
\* DiscrepancyResolution is force_match, refund or ignore; the service
\* treats them alike and one of them is used.
ResolveDiscrepancy ==
  \E c \in DOMAIN reconCalls, reportId \in 1..(Len(reports) + 1),
     discrepancyId \in 0..(2 * MaxSettlement) :
    /\ reconCalls[c].pc = "idle"
    /\ LET known == reportId \in 1..Len(reports)
           discrepancies == IF known THEN reports[reportId].discrepancies ELSE <<>>
           discIdx == indexOfId(discrepancies, discrepancyId)
       IN reconCalls' = [reconCalls EXCEPT ![c] =
            [op |-> "resolveDiscrepancy",
             pc |-> IF discIdx = 0 THEN "done" ELSE "update",
             reportId |-> reportId, discrepancyId |-> discrepancyId,
             discrepancies |->
               IF discIdx = 0 THEN <<>>
               ELSE [discrepancies EXCEPT ![discIdx].resolution = "force_match"],
             resolvedBy |-> "ops",
             error |-> IF discIdx = 0 THEN "NOT_FOUND" ELSE None]]
    /\ UNCHANGED reports

\* An update that writes the list and leaves the status as it was.
UpdateReportKeepingStatus ==
  \E c \in DOMAIN reconCalls :
    /\ reconCalls[c].pc = "update"
    /\ reports' = [reports EXCEPT
         ![reconCalls[c].reportId].discrepancies = reconCalls[c].discrepancies]
    /\ reconCalls' = [reconCalls EXCEPT ![c].pc = "done"]

\* prisma.reconciliationReport.update with the call's list, the status that
\* follows from it and, when all is resolved, reviewedAt and reviewedBy.
UpdateReport ==
  \E c \in DOMAIN reconCalls :
    /\ reconCalls[c].pc = "update"
    /\ LET discrepancies == reconCalls[c].discrepancies
           allResolved == \A i \in 1..Len(discrepancies) :
                            discrepancies[i].resolution # None
           report == reports[reconCalls[c].reportId]
       IN reports' = [reports EXCEPT ![reconCalls[c].reportId] =
            [report EXCEPT
               !.discrepancies = discrepancies,
               !.status = IF allResolved THEN "COMPLETED" ELSE "REQUIRES_REVIEW",
               !.reviewedAt = IF allResolved THEN TRUE ELSE report.reviewedAt,
               !.reviewedBy = IF allResolved THEN reconCalls[c].resolvedBy
                              ELSE report.reviewedBy]]
    /\ reconCalls' = [reconCalls EXCEPT ![c].pc = "done"]

\* A call's promise settles and its client is free for the next call.
ReturnRecon ==
  \E c \in DOMAIN reconCalls :
    /\ reconCalls[c].pc = "done"
    /\ reconCalls' = [reconCalls EXCEPT ![c] = IdleReconCall]
    /\ UNCHANGED reports

ReconIdle ==
  /\ reports = <<>>
  /\ reconCalls = <<>>

\* ------------------------------------------------------ provider service
\* The adapter cache, webhook ingress and provider metrics.  A provider's id
\* stands for its code as well.  The payment specifications that have no
\* webhook and no metrics reader leave these variables alone: nothing there
\* reads them.  The rolling set that updateMetrics writes in Redis is read
\* by no code; the updateMetrics calls are kept in the calls' metrics field.

MaxWebhooks == 1

\* adapterRegistry: the codes with an adapter class
adapterRegistry == {"p1", "p2"}

\* adapterInstances after AdapterFactory.getAdapter(code, config) for a
\* registered code: a cached instance is returned as it is; a new one is
\* initialized only when a config is passed.
getAdapter(code, config) ==
  IF adapterInstances[code] # None THEN adapterInstances
  ELSE [adapterInstances EXCEPT
          ![code] = IF config THEN "initialized" ELSE "created"]

\* An attempt's second half with the adapter cache:
\* providerService.getAdapter passes a config; an adapter that was cached
\* without one fails ensureInitialized in authorize with a plain Error.
AuthorizeWithAdapter ==
  \E c \in DOMAIN calls :
    /\ calls[c].pc = "authorize"
    /\ LET code == calls[c].candidates[calls[c].attempt]
       IN \E outcome \in AuthorizeOutcomes :
            /\ outcome = NoAdapter <=> code \notin adapterRegistry
            /\ (outcome # NoAdapter /\ getAdapter(code, TRUE)[code] = "created")
                 => outcome = PlainError
            /\ authorize(c, outcome)
            /\ adapterInstances' =
                 IF outcome = NoAdapter THEN adapterInstances
                 ELSE getAdapter(code, TRUE)
    /\ UNCHANGED <<webhookEvents, metricsCache>>

\* ProcessedWebhook.status, None for an event type the adapter does not map
WebhookStatuses == {"captured", "authorized", "refunded", "cancelled", "failed", None}

\* statusMap[processed.status] of processWebhook
statusMap(status) ==
  CASE status = "captured" -> "COMPLETED"
    [] status = "authorized" -> "PENDING"
    [] status = "refunded" -> "REFUNDED"
    [] status = "cancelled" -> "CANCELLED"
    [] status = "failed" -> "FAILED"
    [] OTHER -> None

\* prisma.transaction.findFirst({ where: { providerTransactionId } }): the
\* row's id, 0 if there is none
findFirstByProviderTransactionId(providerTransactionId) ==
  IF \E i \in 1..Len(txns) : txns[i].providerTransactionId = providerTransactionId
    THEN CHOOSE i \in 1..Len(txns) :
           txns[i].providerTransactionId = providerTransactionId
    ELSE 0

\* BaseWebhookHandler.processWebhook
processWebhook(providerTransactionId, status) ==
  LET id == findFirstByProviderTransactionId(providerTransactionId)
      newStatus == statusMap(status)
  IN IF \/ providerTransactionId = None
        \/ id = 0
        \/ newStatus = None
        \/ newStatus = txns[id].status
       THEN UNCHANGED <<txns, history>>
       ELSE /\ txns' = [txns EXCEPT ![id] = setStatus(@, newStatus)]
            /\ history' = recordStatusChange(id, txns[id].status, newStatus)

\* BaseWebhookHandler.handleWebhook for a provider with a webhook route:
\* AdapterFactory.getAdapter without a config, the signature check, the
\* webhookEvent row, parseWebhook and processWebhook.
HandleWebhook ==
  \E code \in adapterRegistry, valid \in BOOLEAN, status \in WebhookStatuses,
     providerTransactionId \in {None} \cup {"ptx" \o ToString(i) : i \in 1..MaxTxns} :
    /\ adapterInstances' = getAdapter(code, FALSE)
    /\ IF valid
         THEN /\ webhookEvents < MaxWebhooks
              /\ webhookEvents' = webhookEvents + 1
              /\ processWebhook(providerTransactionId, status)
         ELSE UNCHANGED <<webhookEvents, txns, history>>
    /\ UNCHANGED <<calls, attempters, metricsCache>>

\* The row timestamps are not kept: every measured average latency is this.
MeasuredLatency == 50

\* getMetrics(providerId): the cache entry if there is one, else the rate of
\* rows with this provider that are not FAILED, in percent; null (known is
\* FALSE) without such rows.
getMetrics(providerId) ==
  LET rows == {i \in 1..Len(txns) : txns[i].providerId = providerId}
      totalTransactions == Cardinality(rows)
      failedTransactions == Cardinality({i \in rows : txns[i].status = "FAILED"})
  IN IF metricsCache[providerId].known THEN metricsCache[providerId]
     ELSE IF totalTransactions = 0 THEN NoMetrics[providerId]
     ELSE [known |-> TRUE,
           successRate |->
             ((totalTransactions - failedTransactions) * 100) \div totalTransactions,
           averageLatency |-> MeasuredLatency]

\* getProviderMetrics of the score evaluator for every provider of the
\* directory, all eligible for a card payment in USD: the first part of the
\* selectProvider call of a createPayment.  A result that is not null is
\* cached.
GetMetrics ==
  /\ \E c \in DOMAIN calls : Free(c)
  /\ provMetrics' = [p \in ProviderIds |-> getMetrics(p)]
  /\ metricsCache' = [p \in ProviderIds |-> getMetrics(p)]
  /\ UNCHANGED <<rules, providers, rcontext, decision, payVars,
                 webhookEvents, adapterInstances>>

\* METRICS_CACHE_TTL passes for an entry.
ExpireMetricsCache ==
  \E p \in ProviderIds :
    /\ metricsCache[p].known
    /\ metricsCache' = [metricsCache EXCEPT ![p] = NoMetrics[p]]
    /\ UNCHANGED <<routeVars, payVars, webhookEvents, adapterInstances>>

\* The score evaluator has read every provider's metrics as they are now.
Scored ==
  \A p \in ProviderIds :
    provMetrics[p] = getMetrics(p) /\ metricsCache[p] = getMetrics(p)

ProviderIdle ==
  /\ webhookEvents = 0
  /\ adapterInstances = [p \in ProviderIds |-> None]
  /\ metricsCache = NoMetrics

\* -------------------------------------------------------- specifications
InitLedger ==
  LedgerIdle /\ ProviderIdle /\ RouteIdle /\ PayIdle /\ calls = <<>> /\ CacheIdle /\ ReconIdle

NextLedger ==
  \/ RecordEntries /\ UNCHANGED <<providerVars, routeVars, payVars, cacheVars, reconVars>>
  \/ RecordPayment /\ UNCHANGED <<providerVars, routeVars, payVars, cacheVars, reconVars>>
  \/ RecordRefund /\ UNCHANGED <<providerVars, routeVars, payVars, cacheVars, reconVars>>
  \/ RecordFxSpread /\ UNCHANGED <<providerVars, routeVars, payVars, cacheVars, reconVars>>
  \/ CommitEntries /\ UNCHANGED <<providerVars, routeVars, payVars, cacheVars, reconVars>>
  \/ GetLedgerSummary /\ UNCHANGED <<providerVars, routeVars, payVars, cacheVars, reconVars>>
  \/ TakeResult /\ UNCHANGED <<providerVars, routeVars, payVars, cacheVars, reconVars>>

SpecLedger == InitLedger /\ [][NextLedger]_vars

NextRoute == SelectProvider /\ UNCHANGED <<providerVars, ledgerVars, payVars, cacheVars, reconVars>>

InitRoute ==
  RouteInputs /\ LedgerIdle /\ ProviderIdle /\ PayIdle /\ calls = <<>> /\ CacheIdle /\ ReconIdle

SpecRoute == InitRoute /\ [][NextRoute]_vars

\* The routing tables of the payment specifications: no rules, PayDirectory,
\* no measured metrics.
PayRouting ==
  /\ rules = <<>>
  /\ providers = PayDirectory
  /\ provMetrics = NoMetrics
  /\ rcontext = None
  /\ decision = NoDecision

\* One client: calls follow one another.
InitPaySeq ==
  /\ LedgerIdle /\ ProviderIdle /\ PayRouting /\ PayIdle /\ CacheIdle /\ ReconIdle
  /\ calls = [c \in {"c1"} |-> IdleCall]

NextPaySeq ==
  \/ CreatePayment(CreatePaymentRequests) /\ UNCHANGED <<providerVars, ledgerVars, routeVars, cacheVars, reconVars>>
  \/ CreateTransaction /\ UNCHANGED <<providerVars, ledgerVars, routeVars, cacheVars, reconVars>>
  \/ ExecutePaymentWithProvider /\ UNCHANGED <<providerVars, ledgerVars, routeVars, cacheVars, reconVars>>
  \/ Authorize /\ UNCHANGED <<providerVars, ledgerVars, routeVars, cacheVars, reconVars>>
  \/ UpdateTransactionStatus /\ UNCHANGED <<providerVars, ledgerVars, routeVars, cacheVars, reconVars>>
  \/ CapturePayment /\ UNCHANGED <<providerVars, ledgerVars, routeVars, cacheVars, reconVars>>
  \/ Capture /\ UNCHANGED <<providerVars, ledgerVars, routeVars, cacheVars, reconVars>>
  \/ CancelPayment /\ UNCHANGED <<providerVars, ledgerVars, routeVars, cacheVars, reconVars>>
  \/ Cancel /\ UNCHANGED <<providerVars, ledgerVars, routeVars, cacheVars, reconVars>>
  \/ RefundPayment /\ UNCHANGED <<providerVars, ledgerVars, routeVars, cacheVars, reconVars>>
  \/ Refund /\ UNCHANGED <<providerVars, ledgerVars, routeVars, cacheVars, reconVars>>
  \/ Return /\ UNCHANGED <<providerVars, ledgerVars, routeVars, cacheVars, reconVars>>

SpecPaySeq == InitPaySeq /\ [][NextPaySeq]_vars

\* Two clients whose createPayment calls overlap.
InitPay ==
  /\ LedgerIdle /\ ProviderIdle /\ PayRouting /\ PayIdle /\ CacheIdle /\ ReconIdle
  /\ calls = [c \in {"c1", "c2"} |-> IdleCall]

NextPay ==
  \/ CreatePayment(CardRequests) /\ UNCHANGED <<providerVars, ledgerVars, routeVars, cacheVars, reconVars>>
  \/ CreateTransaction /\ UNCHANGED <<providerVars, ledgerVars, routeVars, cacheVars, reconVars>>
  \/ ExecutePaymentWithProvider /\ UNCHANGED <<providerVars, ledgerVars, routeVars, cacheVars, reconVars>>
  \/ Authorize /\ UNCHANGED <<providerVars, ledgerVars, routeVars, cacheVars, reconVars>>
  \/ UpdateTransactionStatus /\ UNCHANGED <<providerVars, ledgerVars, routeVars, cacheVars, reconVars>>
  \/ Return /\ UNCHANGED <<providerVars, ledgerVars, routeVars, cacheVars, reconVars>>

SpecPay == InitPay /\ [][NextPay]_vars

\* The rule cache under overlapping selectProvider calls and rule mutations.
InitRules ==
  /\ LedgerIdle /\ ProviderIdle /\ PayRouting /\ PayIdle /\ calls = <<>> /\ ReconIdle
  /\ rulesCache = EmptyCache
  /\ ruleCalls = [c \in Selectors \cup {"admin"} |-> IdleRuleCall]

NextRules ==
  \/ GetCachedRules /\ UNCHANGED <<providerVars, ledgerVars, payVars, reconVars, providers, provMetrics, rcontext, decision>>
  \/ FindRules /\ UNCHANGED <<providerVars, ledgerVars, payVars, reconVars, providers, provMetrics, rcontext, decision>>
  \/ CacheRules /\ UNCHANGED <<providerVars, ledgerVars, payVars, reconVars, providers, provMetrics, rcontext, decision>>
  \/ ExpireRulesCache /\ UNCHANGED <<providerVars, ledgerVars, payVars, reconVars, providers, provMetrics, rcontext, decision>>
  \/ CreateRule /\ UNCHANGED <<providerVars, ledgerVars, payVars, reconVars, providers, provMetrics, rcontext, decision>>
  \/ UpdateRule /\ UNCHANGED <<providerVars, ledgerVars, payVars, reconVars, providers, provMetrics, rcontext, decision>>
  \/ DeleteRule /\ UNCHANGED <<providerVars, ledgerVars, payVars, reconVars, providers, provMetrics, rcontext, decision>>
  \/ InvalidateRulesCache /\ UNCHANGED <<providerVars, ledgerVars, payVars, reconVars, providers, provMetrics, rcontext, decision>>
  \/ ReturnRules /\ UNCHANGED <<providerVars, ledgerVars, payVars, reconVars, providers, provMetrics, rcontext, decision>>

SpecRules == InitRules /\ [][NextRules]_vars

\* One client of the reconciliation service: calls follow one another.
InitRecon ==
  /\ LedgerIdle /\ ProviderIdle /\ RouteIdle /\ PayIdle /\ calls = <<>> /\ CacheIdle
  /\ reports = <<>>
  /\ reconCalls = [c \in {"c1"} |-> IdleReconCall]

NextRecon ==
  \/ Reconcile /\ UNCHANGED <<providerVars, ledgerVars, routeVars, payVars, cacheVars>>
  \/ ResolveDiscrepancy /\ UNCHANGED <<providerVars, ledgerVars, routeVars, payVars, cacheVars>>
  \/ UpdateReport /\ UNCHANGED <<providerVars, ledgerVars, routeVars, payVars, cacheVars>>
  \/ ReturnRecon /\ UNCHANGED <<providerVars, ledgerVars, routeVars, payVars, cacheVars>>

SpecRecon == InitRecon /\ [][NextRecon]_vars

\* One payment client and webhook ingress.
InitWebhook ==
  /\ LedgerIdle /\ ProviderIdle /\ PayRouting /\ PayIdle /\ CacheIdle /\ ReconIdle
  /\ calls = [c \in {"c1"} |-> IdleCall]

NextWebhook ==
  \/ CreatePayment(CardRequests) /\ UNCHANGED <<providerVars, ledgerVars, routeVars, cacheVars, reconVars>>
  \/ CreateTransaction /\ UNCHANGED <<providerVars, ledgerVars, routeVars, cacheVars, reconVars>>
  \/ ExecutePaymentWithProvider /\ UNCHANGED <<providerVars, ledgerVars, routeVars, cacheVars, reconVars>>
  \/ AuthorizeWithAdapter /\ UNCHANGED <<ledgerVars, routeVars, cacheVars, reconVars>>
  \/ UpdateTransactionStatus /\ UNCHANGED <<providerVars, ledgerVars, routeVars, cacheVars, reconVars>>
  \/ Return /\ UNCHANGED <<providerVars, ledgerVars, routeVars, cacheVars, reconVars>>
  \/ HandleWebhook /\ UNCHANGED <<ledgerVars, routeVars, cacheVars, reconVars>>

SpecWebhook == InitWebhook /\ [][NextWebhook]_vars

\* One payment client whose routing reads the provider metrics, and other
\* readers of the metrics.
InitMetrics ==
  /\ LedgerIdle /\ ProviderIdle /\ PayRouting /\ PayIdle /\ CacheIdle /\ ReconIdle
  /\ calls = [c \in {"c1"} |-> IdleCall]

NextMetrics ==
  \/ Scored /\ CreatePayment(CardRequests) /\ UNCHANGED <<providerVars, ledgerVars, routeVars, cacheVars, reconVars>>
  \/ CreateTransaction /\ UNCHANGED <<providerVars, ledgerVars, routeVars, cacheVars, reconVars>>
  \/ ExecutePaymentWithProvider /\ UNCHANGED <<providerVars, ledgerVars, routeVars, cacheVars, reconVars>>
  \/ Authorize /\ UNCHANGED <<providerVars, ledgerVars, routeVars, cacheVars, reconVars>>
  \/ UpdateTransactionStatus /\ UNCHANGED <<providerVars, ledgerVars, routeVars, cacheVars, reconVars>>
  \/ Return /\ UNCHANGED <<providerVars, ledgerVars, routeVars, cacheVars, reconVars>>
  \/ GetMetrics /\ UNCHANGED <<ledgerVars, cacheVars, reconVars>>
  \/ ExpireMetricsCache /\ UNCHANGED <<ledgerVars, cacheVars, reconVars>>

SpecMetrics == InitMetrics /\ [][NextMetrics]_vars

\* The score evaluator on one provider of a directory, with measured
\* success rates and latencies from below, inside and above their ranges.
SuccessRates == {-5, 0, 50, 95, 100, 120}
Latencies == {0, 99, 100, 299, 300, 700, 1500}

EvaluateProvider ==
  \E k \in 1..Len(providers), context \in Contexts :
    /\ rcontext' = context
    /\ decision' = evaluateProvider(providers[k], context, provMetrics)
    /\ UNCHANGED <<rules, providers, provMetrics>>

InitScore ==
  /\ LedgerIdle /\ ProviderIdle /\ PayIdle /\ calls = <<>> /\ CacheIdle /\ ReconIdle
  /\ rules = <<>>
  /\ providers \in {d \in Directories : Len(d) = 2}
  /\ provMetrics \in
       {[p \in ProviderIds |->
           [known |-> TRUE, successRate |-> r, averageLatency |-> l]] :
          r \in SuccessRates, l \in Latencies}
  /\ rcontext = None
  /\ decision = NoDecision

NextScore == EvaluateProvider /\ UNCHANGED <<providerVars, ledgerVars, payVars, cacheVars, reconVars>>

SpecScore == InitScore /\ [][NextScore]_vars

\* The condition evaluator on one rule's conditions: an all or any group
\* (with an unknown field, a comparison that throws), the amount as a bare
\* value or a full condition, and the amountMax shorthand.
EvaluatorConditions ==
  { [NoConditions EXCEPT !.all = g.all, !.any = g.any, !.amount = a, !.amountMax = m] :
      g \in { [all |-> <<>>, any |-> <<>>],
              [all |-> <<Cond("country", "equals", Str("SG"))>>, any |-> <<>>],
              [all |-> <<Cond("country", "not_equals", Str("SG"))>>, any |-> <<>>],
              [all |-> <<>>,
               any |-> <<Cond("amount", "less_than", Str("abc")),
                         Cond("currency", "equals", Str("USD"))>>] },
      a \in { Undefined, Num(1), Str("abc"),
              Cond("amount", "equals", Num(1)),
              Cond("amount", "equals", Str("abc")),
              Cond("amount", "greater_than", Str("abc")) },
      m \in { Undefined, Num(1) } }

Evaluate ==
  \E context \in Contexts :
    LET r == evaluate(rules[1].conditions, context)
    IN /\ rcontext' = context
       /\ decision' = IF r = Throw THEN [error |-> Throw, result |-> FALSE]
                      ELSE [error |-> None, result |-> r = Match]
       /\ UNCHANGED <<rules, providers, provMetrics>>

InitEvaluate ==
  /\ LedgerIdle /\ ProviderIdle /\ PayIdle /\ calls = <<>> /\ CacheIdle /\ ReconIdle
  /\ rules \in { << [id |-> RuleIds[1], providerId |-> "p1", conditions |-> c,
                     isActive |-> TRUE] >> : c \in EvaluatorConditions }
  /\ providers = <<>>
  /\ provMetrics = NoMetrics
  /\ rcontext = None
  /\ decision = NoDecision

NextEvaluate == Evaluate /\ UNCHANGED <<providerVars, ledgerVars, payVars, cacheVars, reconVars>>

SpecEvaluate == InitEvaluate /\ [][NextEvaluate]_vars

\* Two clients of the reconciliation service whose resolveDiscrepancy
\* calls overlap, on a report that reconcile made from settlement records
\* with no local counterpart.
InitResolve ==
  /\ LedgerIdle /\ ProviderIdle /\ RouteIdle /\ PayIdle /\ calls = <<>> /\ CacheIdle
  /\ reports \in { <<reconcile(settlementData, <<>>)>> :
                     settlementData \in {sd \in SettlementLists :
                                           \A k \in 1..Len(sd) : sd[k].status = "COMPLETED"} }
  /\ reconCalls = [c \in {"c1", "c2"} |-> IdleReconCall]

NextResolve ==
  \/ ResolveDiscrepancy /\ UNCHANGED <<providerVars, ledgerVars, routeVars, payVars, cacheVars>>
  \/ UpdateReport /\ UNCHANGED <<providerVars, ledgerVars, routeVars, payVars, cacheVars>>
  \/ ReturnRecon /\ UNCHANGED <<providerVars, ledgerVars, routeVars, payVars, cacheVars>>

SpecResolve == InitResolve /\ [][NextResolve]_vars

\* Client c1 creates one card payment while client c2 cancels payments.
InitCancel ==
  /\ LedgerIdle /\ ProviderIdle /\ PayRouting /\ PayIdle /\ CacheIdle /\ ReconIdle
  /\ calls = [c \in {"c1", "c2"} |-> IdleCall]

NextCancel ==
  \/ txns = <<>> /\ CreatePayment(CardRequests) /\ calls'["c2"] = calls["c2"] /\ UNCHANGED <<providerVars, ledgerVars, routeVars, cacheVars, reconVars>>
  \/ CreateTransaction /\ UNCHANGED <<providerVars, ledgerVars, routeVars, cacheVars, reconVars>>
  \/ ExecutePaymentWithProvider /\ UNCHANGED <<providerVars, ledgerVars, routeVars, cacheVars, reconVars>>
  \/ Authorize /\ UNCHANGED <<providerVars, ledgerVars, routeVars, cacheVars, reconVars>>
  \/ UpdateTransactionStatus /\ UNCHANGED <<providerVars, ledgerVars, routeVars, cacheVars, reconVars>>
  \/ CancelPayment /\ calls'["c1"] = calls["c1"] /\ UNCHANGED <<providerVars, ledgerVars, routeVars, cacheVars, reconVars>>
  \/ Cancel /\ UNCHANGED <<providerVars, ledgerVars, routeVars, cacheVars, reconVars>>
  \/ Return /\ UNCHANGED <<providerVars, ledgerVars, routeVars, cacheVars, reconVars>>

SpecCancel == InitCancel /\ [][NextCancel]_vars

\* ------------------------------------------------------------ properties
LedgerErrors == {"TRANSACTION_NOT_FOUND", "UNBALANCED_ENTRY"}

\* C1 (as stated): every entry set recordEntries accepts is balanced per
\* currency, and every entry set that is unbalanced in some currency is
\* rejected with UNBALANCED_ENTRY.
C1_AsStated ==
  last.op = "recordEntries" =>
    /\ last.result = "ok" => last.balanced
    /\ ~last.balanced => last.result = "UNBALANCED_ENTRY"

\* C1 (amended): every entry set recordEntries accepts is balanced per
\* currency; an entry set that is unbalanced in some currency is always
\* rejected, with UNBALANCED_ENTRY when the transaction id is known and with
\* TRANSACTION_NOT_FOUND when it is not (the lookup comes first).
C1_AcceptedIffBalanced ==
  last.op = "recordEntries" =>
    /\ last.result = "ok" => last.balanced
    /\ ~last.balanced =>
         last.result = IF last.known THEN "UNBALANCED_ENTRY"
                       ELSE "TRANSACTION_NOT_FOUND"

C1_Witness ==
  /\ last.op = "recordEntries"
  /\ last.result = "UNBALANCED_ENTRY"
  /\ last.known /\ ~last.balanced
  /\ ledger # EmptyBag

\* C2: in every reachable state the stored rows that carry one transaction
\* id have equal DEBIT and CREDIT totals in every currency.
C2_BalancedPerTransaction ==
  \A t \in KnownTransactions, cur \in Currencies :
    BagAmount(ledger, {r \in DOMAIN ledger : r.transactionId = t /\ r.currency = cur
                                             /\ r.entryType = "DEBIT"})
      = BagAmount(ledger, {r \in DOMAIN ledger : r.transactionId = t /\ r.currency = cur
                                               /\ r.entryType = "CREDIT"})

\* C3: a recordEntries call that fails with TRANSACTION_NOT_FOUND or
\* UNBALANCED_ENTRY leaves the stored rows exactly as they were.
C3_FailedCallWritesNothing ==
  (last.op = "recordEntries" /\ last.result \in LedgerErrors) => ~last.wrote

C3_Witness ==
  /\ last.op = "recordEntries"
  /\ last.result \in LedgerErrors
  /\ ~last.balanced
  /\ BagCardinality(ledger) >= 2

\* C4: an unfiltered getLedgerSummary, taken at any point between the steps
\* of the record* calls, reports isBalanced = TRUE.
C4_SummaryAlwaysBalanced ==
  (last.op = "getLedgerSummary" /\ last.currency = None) => last.isBalanced

C4_Witness ==
  /\ last.op = "getLedgerSummary"
  /\ last.currency = None
  /\ last.during
  /\ last.totalDebits > 0
  /\ last.isBalanced

\* C10: whatever the context, the rules and the providers, the provider that
\* selectProvider returns as selected passes checkEligibility for the context,
\* on the rule path as on the scoring path.
C10_SelectedIsEligible ==
  decision.error = None =>
    \A i \in 1..Len(providers) :
      providers[i].id = decision.selectedProviderId =>
        checkEligibility(providers[i], rcontext)

C6_OneTransactionPerKey ==
  \A k \in Keys :
    /\ Cardinality({i \in 1..Len(txns) : txns[i].idempotencyKey = k}) <= 1
    /\ attempters[k] <= 1

C6_Witness ==
  \E c, d \in DOMAIN calls :
    /\ c # d
    /\ calls[c].op = "createPayment"
    /\ calls[d].op = "createPayment"
    /\ calls[c].request.idempotencyKey = "k1"
    /\ calls[d].request.idempotencyKey = "k1"
    /\ calls[c].contacted # <<>>
    /\ calls[d].pc = "done"
    /\ calls[d].existing = 0
    /\ calls[d].result.error = UniqueViolation
    /\ attempters["k1"] = 1

\* C7 as stated: every status write that PaymentService applies to a
\* Transaction is one of PENDING -> PROCESSING, PROCESSING -> COMPLETED,
\* PROCESSING -> FAILED, COMPLETED -> REFUNDED, PENDING -> CANCELLED.
StateMachineEdges ==
  { <<"PENDING", "PROCESSING">>, <<"PROCESSING", "COMPLETED">>,
    <<"PROCESSING", "FAILED">>, <<"COMPLETED", "REFUNDED">>,
    <<"PENDING", "CANCELLED">> }

C7_AsStated ==
  \A i \in 1..Len(txns) :
    txns[i].written = <<>> \/ txns[i].written \in StateMachineEdges

\* C7: in calls that follow one another, every status write that
\* PaymentService applies to a Transaction is an edge of the state machine or
\* one of PROCESSING -> PENDING (an authorize-only payment), PENDING ->
\* COMPLETED (capturePayment) and PROCESSING -> PROCESSING (a retry on a
\* fallback provider).
AppliedEdges ==
  StateMachineEdges \cup
    { <<"PROCESSING", "PENDING">>, <<"PENDING", "COMPLETED">>,
      <<"PROCESSING", "PROCESSING">> }

C7_WritesFollowAppliedEdges ==
  \A i \in 1..Len(txns) :
    txns[i].written = <<>> \/ txns[i].written \in AppliedEdges

C7_Witness ==
  \E i \in 1..Len(txns) :
    /\ txns[i].type = "PAYMENT"
    /\ txns[i].written = <<"PENDING", "COMPLETED">>
    /\ history[i] = << <<None, "PENDING">>, <<"PENDING", "PROCESSING">>,
                       <<"PENDING", "PROCESSING">>, <<"PROCESSING", "PENDING">>,
                       <<"PENDING", "COMPLETED">> >>

\* C8: createPayment makes its attempts one after another on the candidates
\* [selected, first fallback, second fallback] in that order, at most 3 of
\* them and never two on the same provider; every attempt but the last
\* failed with a retryable error, so nothing follows a success or a
\* non-retryable failure; the providers contacted are the attempted ones
\* whose adapter was obtained.
RECURSIVE contactedIn(_)
contactedIn(attempts) ==
  IF attempts = <<>> THEN <<>>
  ELSE IF Head(attempts).outcome = NoAdapter THEN contactedIn(Tail(attempts))
  ELSE <<Head(attempts).providerId>> \o contactedIn(Tail(attempts))

C8_AttemptsFollowCandidates ==
  \A c \in DOMAIN calls :
    calls[c].op = "createPayment" =>
      LET a == calls[c].attempts
          candidates == calls[c].candidates
      IN /\ Len(a) <= 3
         /\ Len(a) <= Len(candidates)
         /\ \A i \in 1..Len(a) : a[i].providerId = candidates[i]
         /\ \A i, j \in 1..Len(a) : i # j => a[i].providerId # a[j].providerId
         /\ \A i \in 1..(Len(a) - 1) : isRetryable(a[i].outcome)
         /\ calls[c].pc \in {"attempt", "authorize"} => calls[c].attempt = Len(a) + 1
         /\ calls[c].pc \in {"attempt", "authorize"} /\ a # <<>> =>
              isRetryable(a[Len(a)].outcome)
         /\ calls[c].contacted = contactedIn(a)

C8_Witness ==
  \E c \in DOMAIN calls :
    /\ calls[c].op = "createPayment"
    /\ calls[c].pc = "done"
    /\ calls[c].candidates = <<"p1", "p2", "p3">>
    /\ Len(calls[c].attempts) = 3
    /\ calls[c].attempts[1].outcome = "TIMEOUT"
    /\ calls[c].attempts[2].outcome = "TIMEOUT"
    /\ calls[c].attempts[3].outcome = "captured"
    /\ calls[c].contacted = <<"p1", "p2", "p3">>

Called == decision.error # "not called"
Configured(id) == \E k \in 1..Len(providers) : providers[k].id = id
Eligible(id) ==
  \E k \in 1..Len(providers) :
    providers[k].id = id /\ checkEligibility(providers[k], rcontext)
ScoreOf(id) ==
  LET k == CHOOSE k \in 1..Len(providers) : providers[k].id = id
  IN evaluateProvider(providers[k], rcontext, provMetrics).totalScore
Fallbacks == decision.fallbackProviderIds
FallbackSet == {Fallbacks[i] : i \in 1..Len(Fallbacks)}

C13_ErrorsAsStated ==
  Called =>
    /\ (decision.error = "No providers available for this merchant")
         <=> (Len(providers) = 0)
    /\ ( /\ Len(providers) > 0
         /\ \A k \in 1..Len(providers) : ~checkEligibility(providers[k], rcontext) )
       => decision.error = "No eligible providers for this transaction"

\* C14: a selectProvider call that starts when no rule mutation is under way
\* (every createRule, updateRule and deleteRule has returned) and that no
\* mutation overlaps works with the active rules as they are persisted,
\* whatever other selectProvider calls did to the cache before.
C14_SelectSeesPersistedRules ==
  \A c \in Selectors :
    (ruleCalls[c].pc = "done" /\ ruleCalls[c].quiet) =>
      ruleCalls[c].found = getRulesForMerchant(rules)

\* Helpers of the reconciliation properties: the ids a report's run saw.
ProviderIdsIn(r) == {r.settlementData[k].transactionId : k \in 1..Len(r.settlementData)}
LocalIdsIn(r) == {r.localTransactions[i].id : i \in 1..Len(r.localTransactions)}
TypesFor(r, id) ==
  {r.discrepancies[i].type :
     i \in {j \in 1..Len(r.discrepancies) : r.discrepancies[j].transactionId = id}}
DiscrepantIds(r) ==
  {r.discrepancies[i].transactionId : i \in 1..Len(r.discrepancies)}

\* C15: in every report, matchedTransactions plus the number of distinct
\* transaction ids among its discrepancies equals totalTransactions, which is
\* the size of the union of the provider records' ids and the local ids.
C15_CountsAddUp ==
  \A n \in 1..Len(reports) :
    LET r == reports[n]
    IN /\ r.totalTransactions = Cardinality(ProviderIdsIn(r) \cup LocalIdsIn(r))
       /\ r.matchedTransactions + Cardinality(DiscrepantIds(r)) = r.totalTransactions

\* C16: per transaction id, a report has MISSING_IN_DB and nothing else when
\* the id is only in the provider data, MISSING_IN_PROVIDER and nothing else
\* when it is only local, AMOUNT_MISMATCH exactly when a provider record's
\* amount differs from the local one and STATUS_MISMATCH exactly when its
\* status differs; the ids counted as matched are those without discrepancy.
C16_ClassifiedById ==
  \A n \in 1..Len(reports) :
    LET r == reports[n]
        local(id) == r.localTransactions[indexOfId(r.localTransactions, id)]
        records(id) == {k \in 1..Len(r.settlementData) :
                          r.settlementData[k].transactionId = id}
    IN /\ \A id \in ProviderIdsIn(r) \ LocalIdsIn(r) :
            TypesFor(r, id) = {"MISSING_IN_DB"}
       /\ \A id \in LocalIdsIn(r) \ ProviderIdsIn(r) :
            TypesFor(r, id) = {"MISSING_IN_PROVIDER"}
       /\ \A id \in ProviderIdsIn(r) \cap LocalIdsIn(r) :
            /\ TypesFor(r, id) \subseteq {"AMOUNT_MISMATCH", "STATUS_MISMATCH"}
            /\ "AMOUNT_MISMATCH" \in TypesFor(r, id) <=>
                 \E k \in records(id) : r.settlementData[k].amount # local(id).amount
            /\ "STATUS_MISMATCH" \in TypesFor(r, id) <=>
                 \E k \in records(id) : r.settlementData[k].status # local(id).status
       /\ r.matchedTransactions =
            Cardinality((ProviderIdsIn(r) \cup LocalIdsIn(r)) \ DiscrepantIds(r))

\* C17: a report is COMPLETED exactly when every discrepancy of its list has
\* a resolution, and REQUIRES_REVIEW otherwise; a report that became
\* COMPLETED by the resolution of its last open discrepancy has reviewedAt
\* and reviewedBy set.
C17_CompletedIffAllResolved ==
  \A n \in 1..Len(reports) :
    LET r == reports[n]
        allResolved == \A i \in 1..Len(r.discrepancies) :
                         r.discrepancies[i].resolution # None
    IN /\ r.status \in {"COMPLETED", "REQUIRES_REVIEW"}
       /\ (r.status = "COMPLETED") <=> allResolved
       /\ (r.status = "COMPLETED" /\ r.discrepancies # <<>>) =>
            (r.reviewedAt /\ r.reviewedBy = "ops")
       /\ r.status = "REQUIRES_REVIEW" => ~r.reviewedAt

\* The last of two discrepancies has just been resolved.
C17_Witness ==
  \E c \in DOMAIN reconCalls :
    /\ reconCalls[c].op = "resolveDiscrepancy"
    /\ reconCalls[c].pc = "done"
    /\ reconCalls[c].error = None
    /\ reconCalls[c].reportId \in 1..Len(reports)
    /\ LET r == reports[reconCalls[c].reportId]
       IN /\ Len(r.discrepancies) >= 2
          /\ r.status = "COMPLETED"
          /\ r.reviewedAt
          /\ r.reviewedBy = "ops"
          /\ \A i \in 1..Len(r.discrepancies) :
               r.discrepancies[i].resolution = "force_match"

\* C18: a resolveDiscrepancy call that names an unknown report, or a
\* discrepancy id that is not in the named report, ends with notFound and
\* leaves the report table as it is.
C18_NotFoundChangesNothing ==
  [][\A c \in DOMAIN reconCalls :
       ( /\ reconCalls[c].pc = "idle"
         /\ reconCalls'[c].op = "resolveDiscrepancy"
         /\ \/ reconCalls'[c].reportId \notin 1..Len(reports)
            \/ \A i \in 1..Len(reports[reconCalls'[c].reportId].discrepancies) :
                 reports[reconCalls'[c].reportId].discrepancies[i].id
                   # reconCalls'[c].discrepancyId )
       => /\ reports' = reports
          /\ reconCalls'[c].pc = "done"
          /\ reconCalls'[c].error = "NOT_FOUND"]_vars

\* A call has just failed on a discrepancy id that the report, which has
\* an open discrepancy, does not contain.
C18_Witness ==
  \E c \in DOMAIN reconCalls :
    /\ reconCalls[c].op = "resolveDiscrepancy"
    /\ reconCalls[c].pc = "done"
    /\ reconCalls[c].error = "NOT_FOUND"
    /\ reconCalls[c].reportId \in 1..Len(reports)
    /\ LET r == reports[reconCalls[c].reportId]
       IN /\ r.status = "REQUIRES_REVIEW"
          /\ r.reviewedBy = None
          /\ \A i \in 1..Len(r.discrepancies) :
               r.discrepancies[i].id # reconCalls[c].discrepancyId

\* C19: a capturePayment, cancelPayment or refundPayment call that fails
\* leaves the transaction table and the status history as they were, at its
\* failing step as at its first; when it fails in its opening checks (not
\* found, wrong status, no provider on the row) or for want of an adapter,
\* it has contacted no provider adapter.
C19_FailedOperationChangesNothing ==
  [][\A c \in DOMAIN calls :
       /\ ( /\ Free(c)
            /\ calls'[c].op \in {"capturePayment", "cancelPayment", "refundPayment"} )
          => (txns' = txns /\ history' = history)
       /\ ( /\ calls[c].pc # "done"
            /\ calls'[c].pc = "done"
            /\ calls'[c].op \in {"capturePayment", "cancelPayment", "refundPayment"}
            /\ calls'[c].result.error # None )
          => /\ txns' = txns
             /\ history' = history
             /\ ( \/ Free(c)
                  \/ calls'[c].result.error = NoAdapter )
                => calls'[c].contacted = <<>>]_vars

\* A refund of a COMPLETED payment has just failed at the provider.
C19_Witness ==
  \E c \in DOMAIN calls :
    /\ calls[c].op = "refundPayment"
    /\ calls[c].pc = "done"
    /\ calls[c].result.error = "PROVIDER_ERROR"
    /\ calls[c].contacted # <<>>
    /\ Len(txns) = 1
    /\ txns[calls[c].id].status = "COMPLETED"

\* C20: a refundPayment call that succeeds adds one Transaction of type
\* REFUND whose parentTransactionId is the original's id and returns it; the
\* original, COMPLETED until then, becomes REFUNDED if and only if the refund
\* amount (request.amount, the original amount when absent) equals the
\* original amount, and stays COMPLETED otherwise.
C20_ParentRefundedIffEqual ==
  [][\A c \in DOMAIN calls :
       ( /\ calls[c].pc = "refund"
         /\ calls'[c].pc = "done"
         /\ calls'[c].result.error = None )
       => LET id == calls[c].id
              new == Len(txns) + 1
          IN /\ Len(txns') = new
             /\ calls'[c].result.id = new
             /\ txns'[new].type = "REFUND"
             /\ txns'[new].parentTransactionId = id
             /\ txns[id].status = "COMPLETED"
             /\ txns'[id].status \in {"COMPLETED", "REFUNDED"}
             /\ (txns'[id].status = "REFUNDED")
                  <=> (calls[c].refundAmount = txns[id].amount)]_vars

\* C20, as the code has it: the original becomes REFUNDED if and only if the
\* refund amount is at least the original amount.
C20_ParentRefundedIffAtLeast ==
  [][\A c \in DOMAIN calls :
       ( /\ calls[c].pc = "refund"
         /\ calls'[c].pc = "done"
         /\ calls'[c].result.error = None )
       => LET id == calls[c].id
              new == Len(txns) + 1
          IN /\ Len(txns') = new
             /\ calls'[c].result.id = new
             /\ txns'[new].type = "REFUND"
             /\ txns'[new].parentTransactionId = id
             /\ \A i \in 1..Len(txns) : i # id => txns'[i] = txns[i]
             /\ txns[id].status = "COMPLETED"
             /\ txns'[id].status \in {"COMPLETED", "REFUNDED"}
             /\ (txns'[id].status = "REFUNDED")
                  <=> (calls[c].refundAmount >= txns[id].amount)]_vars

\* A partial refund has just succeeded and left the original COMPLETED.
C20_Witness ==
  \E c \in DOMAIN calls :
    /\ calls[c].op = "refundPayment"
    /\ calls[c].pc = "done"
    /\ calls[c].result.error = None
    /\ calls[c].refundAmount < txns[calls[c].id].amount
    /\ txns[calls[c].id].status = "COMPLETED"
    /\ txns[calls[c].result.id].type = "REFUND"
    /\ txns[calls[c].result.id].parentTransactionId = calls[c].id

\* C21: a createPayment call has called updateMetrics once for each provider
\* attempt it has finished, in the order of the attempts, for the provider of
\* the attempt and with success true exactly when the attempt ended in an
\* authorized or captured answer.
C21_MetricsOncePerAttempt ==
  \A c \in DOMAIN calls :
    calls[c].op = "createPayment" =>
      /\ Len(calls[c].metrics) = Len(calls[c].attempts)
      /\ \A i \in 1..Min2(Len(calls[c].metrics), Len(calls[c].attempts)) :
           calls[c].metrics[i] =
             <<calls[c].attempts[i].providerId,
               calls[c].attempts[i].outcome \in {"captured", "authorized"}>>

\* C22: a webhook that is processed changes the status of a Transaction
\* only along an edge of the state machine (PENDING -> PROCESSING,
\* PROCESSING -> COMPLETED, PROCESSING -> FAILED, COMPLETED -> REFUNDED,
\* PENDING -> CANCELLED); any other webhook leaves every status as it was.
C22_WebhookFollowsStateMachine ==
  [][webhookEvents' # webhookEvents =>
       \A i \in 1..Len(txns) :
         \/ txns'[i].status = txns[i].status
         \/ <<txns[i].status, txns'[i].status>> \in StateMachineEdges]_vars

\* C23: when an updateMetrics call has recorded a failed attempt against a
\* provider and the provider has no cached metrics, what getMetrics returns
\* for the provider to the score evaluator is a measured success rate below
\* 100 percent.
C23_FailedAttemptIsScored ==
  \A c \in DOMAIN calls : \A p \in ProviderIds :
    ( /\ calls[c].op = "createPayment"
      /\ calls[c].pc = "done"
      /\ \E i \in 1..Len(calls[c].metrics) : calls[c].metrics[i] = <<p, FALSE>>
      /\ ~metricsCache[p].known )
    => (getMetrics(p).known /\ getMetrics(p).successRate < 100)

\* C30: an attempt of createPayment that got an adapter from
\* ProviderService.getAdapter got an initialized one.
C30_AdapterInitialized ==
  [][\A c \in DOMAIN calls :
       ( /\ calls[c].pc = "authorize"
         /\ calls'[c].pc # "authorize"
         /\ calls'[c].attempts[Len(calls'[c].attempts)].outcome # NoAdapter )
       => adapterInstances'[calls[c].candidates[calls[c].attempt]] = "initialized"]_vars

\* C24: for an eligible provider, every success rate at or above the one
\* that was scored gives an aggregate score at least as high and every rate
\* at or below it one at most as high, with status, latency, cost and
\* priority as they are; the success-rate component is between 0 and 100
\* points.
C24_ScoreMonotoneInSuccessRate ==
  ("eligible" \in DOMAIN decision /\ decision.eligible) =>
    LET provider == providers[CHOOSE k \in 1..Len(providers) :
                               providers[k].id = decision.providerId]
        scored == provMetrics[provider.id].successRate
        scoreAt(r) ==
          evaluateProvider(provider, rcontext,
            [provMetrics EXCEPT ![provider.id].successRate = r]).totalScore
    IN /\ decision.totalScore = scoreAt(scored)
       /\ \A r \in SuccessRates :
            /\ r >= scored => scoreAt(r) >= decision.totalScore
            /\ r <= scored => scoreAt(r) <= decision.totalScore
       /\ \A r \in SuccessRates :
            /\ calculateSuccessRateScore(r) >= 0
            /\ calculateSuccessRateScore(r) <= ScoreUnit * 100

\* A degraded provider of second priority was scored with a success rate of
\* 50 percent and a latency of 299 ms; a rate of 95 percent scores higher.
C24_Witness ==
  /\ "eligible" \in DOMAIN decision
  /\ decision.eligible
  /\ decision.providerId = "p2"
  /\ providers[2].status = "DEGRADED"
  /\ provMetrics["p2"].successRate = 50
  /\ provMetrics["p2"].averageLatency = 299
  /\ evaluateProvider(providers[2], rcontext,
        [provMetrics EXCEPT !["p2"].successRate = 95]).totalScore
       > decision.totalScore

\* C25: evaluate ends with true or false, never with an error, and conditions
\* whose all group holds a condition on a field that the context does not
\* have do not match.
C25_EvaluateNeverRaises ==
  /\ decision.error # Throw
  /\ ( /\ decision.error = None
       /\ \E i \in 1..Len(rules[1].conditions.all) :
            rules[1].conditions.all[i].field
              \notin {"currency", "amount", "paymentMethodType"} )
     => ~decision.result

\* C26: when no PaymentService call is under way, the status history of
\* every payment Transaction is a chain: it starts with the row (no status)
\* -> PENDING, every later row starts from the status the row before it ends
\* in, and the last row ends in the Transaction's status.
C26_HistoryIsChain ==
  (\A c \in DOMAIN calls : calls[c].pc \in {"idle", "done"}) =>
    \A i \in 1..Len(txns) :
      txns[i].type = "PAYMENT" =>
        LET h == history[i]
        IN /\ Len(h) >= 1
           /\ h[1] = <<None, "PENDING">>
           /\ \A j \in 2..Len(h) : h[j][1] = h[j - 1][2]
           /\ h[Len(h)][2] = txns[i].status

\* C27: no entry set with fewer than two entries passes the checks of
\* recordEntries: the batch handed to prisma.$transaction, if any, has at
\* least two entries.
C27_FewerThanTwoRejected ==
  inflight # NoCall => Len(inflight.entries) >= 2

\* C28: a resolution that a resolveDiscrepancy call has stored stays in the
\* report in every later state, and a report that is COMPLETED stays
\* COMPLETED, whatever other resolveDiscrepancy calls do.
C28_ResolutionsStay ==
  [][\A n \in 1..Len(reports) :
       /\ \A i \in 1..Len(reports[n].discrepancies) :
            reports[n].discrepancies[i].resolution # None
              => reports'[n].discrepancies[i].resolution # None
       /\ reports[n].status = "COMPLETED" => reports'[n].status = "COMPLETED"]_vars

\* C29: a Transaction that is CANCELLED, FAILED or REFUNDED keeps that
\* status in every step of every PaymentService operation.
C29_TerminalStatusesStay ==
  [][\A i \in 1..Len(txns) :
       txns[i].status \in {"CANCELLED", "FAILED", "REFUNDED"}
         => txns'[i].status = txns[i].status]_vars

====
